---------------------------- MODULE Spec2Model ----------------------------
(***************************************************************************)
(* A model of the EduLab front end: the PhET iframe loader, the            *)
(* simulation loading queue, the content filter, the data manager's        *)
(* fetch-with-retry, the teacher session bookkeeping and the custom        *)
(* simulation manager.  Every subsystem has its own variables and its own  *)
(* specification; a specification leaves the other subsystems' variables   *)
(* unchanged.                                                              *)
(*                                                                         *)
(* Time is counted in ticks.  For the iframe loader one tick is 10 s, so   *)
(* the 30000 ms loading timeout is 3 ticks and the 60000 ms fallback       *)
(* timeout is 6 ticks; for the data manager one tick is 1000 ms; for the   *)
(* teacher session one tick is 30 s.                                       *)
(***************************************************************************)
EXTENDS Integers, Sequences, FiniteSets, TLC

(***************************************************************************)
(* Bounds of the model.                                                    *)
(***************************************************************************)
MaxCalls    == 3    \* PhETIntegration.loadSimulation calls per behaviour
MaxWrappers == 2    \* simulation wrappers created per behaviour
MaxTime     == 4    \* last tick of the iframe loader's clock
MaxRequests == 3    \* SimulationLoader.loadSimulation calls per behaviour
MaxFetching == 1    \* loader requests awaiting their first getSimulationById answer
MaxLoaded   == 3    \* simulations in the list the content filter has loaded
MaxFetchCalls == 2  \* DataManager.fetchWithRetry calls per behaviour
MaxFetchTime  == 4  \* last tick of the data manager's clock
MaxAuthTime   == 31 \* last tick of the teacher session's clock
MaxCustom     == 3  \* custom simulations held by the simulation manager
MaxNextId     == 4  \* largest value of SimulationManager.nextId
MaxImport     == 2  \* simulations in one import file
MaxTrackerIds  == 3 \* simulation ids the completion tracker is called with
MaxTrackerTime == 4 \* last tick of the completion tracker's clock
MaxStackDepth  == 4 \* nested saveCompletionData calls the engine's stack holds
BigMetadata    == 5 \* size of the metadata of a bulky tracker entry, in MB
MaxCollections  == 5 \* collections held by the collection manager
MaxCollectionId == 3 \* largest value of CollectionManager.nextId
MaxPages        == 51 \* HTML pages of the site the service worker is asked for
MaxJsonFetches  == 3  \* fetchWithRetry calls DataManager.loadJSON starts per behaviour
MaxRenders      == 2  \* renderCards calls of the browser waiting for a frame at once
MaxErrors       == 3  \* errors reported to the error handler per behaviour
MaxReloads      == 2  \* reloadSimulation calls in progress at once

SimIds == {"s1", "s2"}

(***************************************************************************)
(* Program constants (in ticks of 10 s).                                   *)
(***************************************************************************)
LoadingTimeout  == 3    \* this.loadingTimeout = 30000
FallbackTimeout == 6    \* fallbackOptions.timeout = 60000

MaxConcurrentLoads == 2 \* this.maxConcurrentLoads

RetryAttempts == 3      \* this.retryAttempts
RetryDelay    == 1      \* this.retryDelay = 1000, in ticks of 1000 ms

\* TeacherAuth, in ticks of 30 s.
Minute           == 2     \* 1000 * 60 in getTimeUntilExpiry
CheckInterval    == 2     \* both setInterval periods: 60 * 1000
ExtendInterval   == 10    \* extendInterval = 5 * 60 * 1000
ExtendThreshold  == 10    \* minutes: timeUntilExpiry < 10
WarningThreshold == 5     \* minutes: timeLeft <= 5
SessionDuration  == 2880  \* this.sessionDuration = 24 * 60 * 60 * 1000

\* CompletionTracker: sizes in MB, time in ticks of 12 h, completion records
\* counted in blocks of 500.
maxStorageSize == 4       \* this.maxStorageSize = 4 * 1024 * 1024
Day            == 2       \* 1000 * 60 * 60 * 24
CleanupAge     == 180     \* 90 * 24 * 60 * 60 * 1000
CleanupLimit   == 2       \* completedEntries.length > 1000
CleanupKeep    == 1       \* slice(0, 500)

\* Service worker.
maxRetryAttempts == 3   \* this.maxRetryAttempts of the error handler

batchSize == 8          \* const batchSize = 8 (cards appended per frame)
ManyCards == 12         \* simulations.length > 12: showLoadingState

MAX_DYNAMIC_CACHE_SIZE == 50

VARIABLES
  \* ---- PhETIntegration
  wrappers,           \* the .simulation-container elements, in creation order
  calls,              \* the loadSimulation calls made so far (closures + promise)
  loadedSimulations,  \* this.loadedSimulations: simulation id -> wrapper (0: none)
  now,                \* the clock of the iframe loader
  lastOp,             \* the public call the latest step made, and how it returned
  \* ---- SimulationLoader
  requests,           \* the loadSimulation calls of the loader, in arrival order
  loadingQueue,       \* this.loadingQueue: the requests waiting, oldest first
  currentLoads,       \* this.currentLoads
  queueTimers,        \* pending setTimeout(() => this.processQueue(), 100)
  loadStatistics,     \* this.loadStatistics
  preloadCache,       \* this.preloadCache
  \* ---- ContentFilter
  allSimulations,     \* this.allSimulations
  currentFilters,     \* this.currentFilters
  filteredResults,    \* this.filteredResults
  filterOp,           \* the ContentFilter method that completed last
  \* ---- DataManager.fetchWithRetry
  fetchCall,          \* the fetchWithRetry call: position, attempt, attempts so far
  fetchClock,         \* the clock of the data manager, in ticks of 1000 ms
  errorReports,       \* errors handed to ErrorHandler.handleNetworkError
  fetchCallsStarted,  \* fetchWithRetry calls made so far
  \* ---- TeacherAuth
  sessionItem,        \* sessionStorage item edulab_teacher_session
  localItem,          \* localStorage item edulab_teacher_session
  authNow,            \* Date.now(), in ticks of 30 s
  page,               \* "loading", "open", or "login" after the redirect
  activityDue,        \* next run of the interval of setupActivityExtension (0: none)
  warningDue,         \* next run of the interval of setupExpiryWarning (0: none)
  lastActivity,       \* lastActivity of setupActivityExtension
  warningShown,       \* window.EduLabSessionWarningShown
  dialogOpen,         \* the confirm() of showExpiryWarning is on the screen
  authOp,             \* the latest isLoggedIn() call: what it found and returned
  watch,              \* the session the open page started with, and whether it was extended
  \* ---- SimulationManager
  customSimulations,  \* this.customSimulations
  nextId,             \* this.nextId
  storedSimulations,  \* localStorage item edulab_custom_simulations
  \* ---- CompletionTracker
  completionData,     \* this.completionData
  storedCompletion,   \* localStorage item edulab_completion_data
  trackerNow,         \* Date.now(), in ticks of 12 h
  trackerOp,          \* the latest CompletionTracker call and what it returned
  \* ---- CollectionManager
  collections,        \* this.collections
  collectionNextId,   \* this.nextId
  storedCollections,  \* localStorage item edulab_collections
  collectionOp,       \* the latest CollectionManager call and how it ended
  \* ---- Service worker
  staticCache,        \* the cache CACHE_NAME: the URLs it holds a response for
  dynamicCache,       \* the cache DYNAMIC_CACHE_NAME: its keys, oldest first
  swOp,               \* the latest fetch event and how it was answered
  \* ---- DataManager.searchAllSimulations
  searchOp,           \* the latest searchAllSimulations call and what it returned
  \* ---- DataManager.loadJSON
  jsonCache,          \* this.cache: per cache key, the data held (0: none)
  loadingPromises,    \* this.loadingPromises: per cache key, the promise held (0: none)
  jsonFetches,        \* the fetchWithRetry calls in progress: promise and cache key
  jsonStarted,        \* fetchWithRetry calls loadJSON has started so far
  jsonOp,             \* the latest loadJSON call and what it returned
  \* ---- SimulationBrowser
  browserFilters,     \* this.currentFilters of the browser
  simulationsGrid,    \* the children of #simulations-grid, in document order
  resultsCount,       \* the count #results-count displays (-1: nothing yet)
  renders,            \* the renderCards calls waiting for the next frame, oldest first
  searchTimeout,      \* the debounce timer of setSearch is armed
  isInitialized,      \* "no", "loading" (initialize is running) or "yes"
  staleFilters,       \* the filters changed and no updateResults has read them
  \* ---- ErrorHandler
  errorElements,      \* the error messages displayed in #error-container
  retryAttempts,      \* this.retryAttempts: per error id, the retry information
  errorsReported,     \* error ids generated so far
  reloadsPending,     \* reloadSimulation calls awaiting their load
  fetchesPending,     \* fetchWithRetry calls started by a retry callback
  errorOp             \* the latest retryAction call and what it executed

phetVars == <<wrappers, calls, loadedSimulations, now, lastOp>>

loaderVars == <<requests, loadingQueue, currentLoads, queueTimers,
                loadStatistics, preloadCache>>

filterVars == <<allSimulations, currentFilters, filteredResults, filterOp>>

fetchVars == <<fetchCall, fetchClock, errorReports, fetchCallsStarted>>

authVars == <<sessionItem, localItem, authNow, page, activityDue, warningDue,
              lastActivity, warningShown, dialogOpen, authOp, watch>>

managerVars == <<customSimulations, nextId, storedSimulations>>

trackerVars == <<completionData, storedCompletion, trackerNow, trackerOp>>

collectionVars == <<collections, collectionNextId, storedCollections, collectionOp>>

workerVars == <<staticCache, dynamicCache, swOp>>

searchVars == <<searchOp>>

jsonVars == <<jsonCache, loadingPromises, jsonFetches, jsonStarted, jsonOp>>

browserVars == <<browserFilters, simulationsGrid, resultsCount, renders,
                 searchTimeout, isInitialized, staleFilters>>

errorVars == <<errorElements, retryAttempts, errorsReported, reloadsPending,
               fetchesPending, errorOp>>

vars == <<phetVars, loaderVars, filterVars, fetchVars, authVars,
          managerVars, trackerVars, collectionVars, workerVars,
          searchVars, jsonVars, browserVars, errorVars>>

\* What each subsystem's actions leave alone.
NotPhet ==
  <<loaderVars, filterVars, fetchVars, authVars, managerVars,
    trackerVars, collectionVars, workerVars, searchVars,
    jsonVars, browserVars, errorVars>>
NotPhetLoader ==
  <<filterVars, fetchVars, authVars, managerVars, trackerVars,
    collectionVars, workerVars, searchVars, jsonVars,
    browserVars, errorVars>>
NotFilter ==
  <<phetVars, loaderVars, fetchVars, authVars, managerVars,
    trackerVars, collectionVars, workerVars, searchVars,
    jsonVars, browserVars, errorVars>>
NotFetch ==
  <<phetVars, loaderVars, filterVars, authVars, managerVars,
    trackerVars, collectionVars, workerVars, searchVars,
    jsonVars, browserVars, errorVars>>
NotAuth ==
  <<phetVars, loaderVars, filterVars, fetchVars, managerVars,
    trackerVars, collectionVars, workerVars, searchVars,
    jsonVars, browserVars, errorVars>>
NotManager ==
  <<phetVars, loaderVars, filterVars, fetchVars, authVars,
    trackerVars, collectionVars, workerVars, searchVars,
    jsonVars, browserVars, errorVars>>
NotTracker ==
  <<phetVars, loaderVars, filterVars, fetchVars, authVars,
    managerVars, collectionVars, workerVars, searchVars,
    jsonVars, browserVars, errorVars>>
NotCollection ==
  <<phetVars, loaderVars, filterVars, fetchVars, authVars,
    managerVars, trackerVars, workerVars, searchVars, jsonVars,
    browserVars, errorVars>>
NotWorker ==
  <<phetVars, loaderVars, filterVars, fetchVars, authVars,
    managerVars, trackerVars, collectionVars, searchVars,
    jsonVars, browserVars, errorVars>>
NotSearch ==
  <<phetVars, loaderVars, filterVars, fetchVars, authVars,
    managerVars, trackerVars, collectionVars, workerVars,
    jsonVars, browserVars, errorVars>>
NotJson ==
  <<phetVars, loaderVars, filterVars, fetchVars, authVars,
    managerVars, trackerVars, collectionVars, workerVars,
    searchVars, browserVars, errorVars>>
NotBrowser ==
  <<phetVars, loaderVars, filterVars, fetchVars, authVars,
    managerVars, trackerVars, collectionVars, workerVars,
    searchVars, jsonVars, errorVars>>
NotError ==
  <<phetVars, loaderVars, filterVars, fetchVars, authVars,
    managerVars, trackerVars, collectionVars, workerVars,
    searchVars, jsonVars, browserVars>>

(***************************************************************************)
(*                            PhETIntegration                              *)
(***************************************************************************)

\* The options objects callers pass to embedSimulation (timeout 0: none given).
DefaultOptions == [showHeader |-> TRUE, showControls |-> TRUE, timeout |-> 0]

NoOp == [op |-> "none", wrapper |-> 0, result |-> "none", call |-> 0]

\* createSimulationWrapper: the loading element is visible, the error element
\* carries class "hidden", the wrapper has neither class "loading" nor "error".
createSimulationWrapper(sim, options) ==
  [ sim            |-> sim,
    loadingVisible |-> TRUE,
    loadingClass   |-> FALSE,
    errorVisible   |-> FALSE,
    loaded         |-> FALSE,
    showHeader     |-> options.showHeader,
    showControls   |-> options.showControls ]

showLoading(wr) ==
  [wr EXCEPT !.loadingVisible = TRUE, !.errorVisible = FALSE, !.loadingClass = TRUE]

hideLoading(wr) ==
  [wr EXCEPT !.loadingVisible = FALSE, !.loadingClass = FALSE]

showError(wr) ==
  [wr EXCEPT !.loadingVisible = FALSE, !.errorVisible = TRUE, !.loadingClass = FALSE]

hideError(wr) ==
  [wr EXCEPT !.errorVisible = FALSE]

\* The delay handed to setTimeout(onTimeout, ...) in loadSimulation: always
\* this.loadingTimeout, whatever the options say.
TimeoutDelay(options) == LoadingTimeout

\* The state a loadSimulation call sets up before it returns its promise:
\* both listeners added, the timeout and the progress interval armed.
MutNoTimeoutArmed(kind, w, options, owner) ==
  [ kind |-> kind, wrapper |-> w, owner |-> owner,
    state |-> "pending", cause |-> "none", settles |-> 0,
    loadListener |-> TRUE, errorListener |-> TRUE,
    loadTimeout |-> FALSE, progressInterval |-> TRUE,
    deadline |-> now + TimeoutDelay(options),
    startedAt |-> now, timedOutAt |-> 0,
    timeoutOpt |-> options.timeout ]

loadSimulation(kind, w, options, owner) ==
  [ kind |-> kind, wrapper |-> w, owner |-> owner,
    state |-> "pending", cause |-> "none", settles |-> 0,
    loadListener |-> TRUE, errorListener |-> TRUE,
    loadTimeout |-> TRUE, progressInterval |-> TRUE,
    deadline |-> now + TimeoutDelay(options),
    startedAt |-> now, timedOutAt |-> 0,
    timeoutOpt |-> options.timeout ]

\* cleanup(): clearTimeout, clearInterval, removeEventListener twice.
MutCleanupKeepsListeners(c) ==
  [c EXCEPT !.loadTimeout = FALSE, !.progressInterval = FALSE]

cleanup(c) ==
  [c EXCEPT !.loadTimeout = FALSE, !.progressInterval = FALSE,
            !.loadListener = FALSE, !.errorListener = FALSE]

\* One of onLoad / onError / onTimeout runs for call c: cleanup, then resolve
\* or reject.  A promise keeps its first outcome; settles counts the runs.
RunHandler(c, outcome, cause) ==
  LET d == cleanup(c) IN
  [d EXCEPT !.settles    = @ + 1,
            !.state      = IF c.state = "pending" THEN outcome ELSE @,
            !.cause      = IF c.state = "pending" THEN cause ELSE @,
            !.timedOutAt = IF c.state = "pending" /\ cause = "timeout" THEN now ELSE @]

CallIds    == 1..Len(calls)
WrapperIds == 1..Len(wrappers)

LoadListeners(w)  == {c \in CallIds : calls[c].wrapper = w /\ calls[c].loadListener}
ErrorListeners(w) == {c \in CallIds : calls[c].wrapper = w /\ calls[c].errorListener}

\* The calls among S whose promise the running handlers decide now.
Deciding(S) == {c \in S : calls[c].state = "pending"}

CanStartCall == Len(calls) < MaxCalls /\ now + LoadingTimeout <= MaxTime

\* embedSimulation up to its await: the wrapper is appended and the load begun.
EmbedStart(sim, options, owner) ==
  /\ wrappers' = Append(wrappers, createSimulationWrapper(sim, options))
  /\ calls' = Append(calls, loadSimulation("embed", Len(wrappers) + 1, options, owner))

\* The wrapper after the handlers of the event have run and the awaiting
\* embedSimulation / reloadSimulation has continued.
\*   load : onLoad hides the loading state and marks the iframe loaded;
\*   error, timeout : the caller's catch block shows the error state.
WrapperAfter(w, S, ok) ==
  IF ok THEN [hideLoading(wrappers[w]) EXCEPT !.loaded = TRUE]
  ELSE IF Deciding(S) # {} THEN showError(wrappers[w])
  ELSE wrappers[w]

\* embedSimulation after a successful await: this.loadedSimulations.set(id, ...)
StoreReference(w, S) ==
  IF \E c \in Deciding(S) : calls[c].kind = "embed"
  THEN [loadedSimulations EXCEPT ![wrappers[w].sim] = w]
  ELSE loadedSimulations

\* The iframe of wrapper w fires "load": every registered onLoad runs.
IframeLoadCore(w) ==
  LET S == LoadListeners(w) IN
  /\ w \in WrapperIds
  /\ S # {}
  /\ calls' = [c \in CallIds |->
                 IF c \in S THEN RunHandler(calls[c], "resolved", "load") ELSE calls[c]]
  /\ wrappers' = [wrappers EXCEPT ![w] = WrapperAfter(w, S, TRUE)]
  /\ loadedSimulations' = StoreReference(w, S)
  /\ lastOp' = NoOp
  /\ UNCHANGED now

\* The iframe of wrapper w fires "error": every registered onError runs.
IframeErrorCore(w) ==
  LET S == ErrorListeners(w) IN
  /\ w \in WrapperIds
  /\ S # {}
  /\ calls' = [c \in CallIds |->
                 IF c \in S THEN RunHandler(calls[c], "rejected", "error") ELSE calls[c]]
  /\ wrappers' = [wrappers EXCEPT ![w] = WrapperAfter(w, S, FALSE)]
  /\ lastOp' = NoOp
  /\ UNCHANGED <<loadedSimulations, now>>

\* The loading timeout of call c expires: onTimeout runs.
TimeoutCore(c) ==
  /\ c \in CallIds
  /\ calls[c].loadTimeout
  /\ now >= calls[c].deadline
  /\ calls' = [calls EXCEPT ![c] = RunHandler(calls[c], "rejected", "timeout")]
  /\ wrappers' = [wrappers EXCEPT ![calls[c].wrapper] =
                    WrapperAfter(calls[c].wrapper, {c}, FALSE)]
  /\ lastOp' = NoOp
  /\ UNCHANGED <<loadedSimulations, now>>

\* A timer that is due fires before the clock moves on.  The clock is read
\* only through armed timers, so it is followed only while one is armed.
TimerArmed == \E c \in CallIds : calls[c].loadTimeout
TimerDue   == \E c \in CallIds : calls[c].loadTimeout /\ now >= calls[c].deadline

TickCore ==
  /\ now < MaxTime
  /\ TimerArmed
  /\ ~TimerDue
  /\ now' = now + 1
  /\ lastOp' = NoOp
  /\ UNCHANGED <<wrappers, calls, loadedSimulations>>

\* reloadSimulation(simulationId) up to its await.
ReloadCore(op, button, simulationId) ==
  LET w == loadedSimulations[simulationId] IN
  IF w = 0
  THEN /\ lastOp' = [op |-> op, wrapper |-> button, result |-> "not_found", call |-> 0]
       /\ UNCHANGED <<wrappers, calls, loadedSimulations, now>>
  ELSE /\ CanStartCall
       /\ wrappers' = [wrappers EXCEPT ![w] = hideError(showLoading(wrappers[w]))]
       /\ calls' = Append(calls, loadSimulation("reload", w, DefaultOptions, 0))
       /\ lastOp' = [op |-> op, wrapper |-> button, result |-> "started",
                     call |-> Len(calls) + 1]
       /\ UNCHANGED <<loadedSimulations, now>>

----------------------------------------------------------------------------
(***************************************************************************)
(* SpecPhet: PhETIntegration used directly (the pages and EduLabPhET).     *)
(***************************************************************************)

\* embedSimulation(container, simulation, options); input says whether the
\* container is found and the simulation passes validateSimulation.
EmbedSimulation(sim, options, input) ==
  /\ Len(wrappers) < MaxWrappers
  /\ CanStartCall
  /\ IF input = "ok"
     THEN /\ EmbedStart(sim, options, 0)
          /\ lastOp' = [op |-> "embed", wrapper |-> Len(wrappers) + 1,
                        result |-> "started", call |-> Len(calls) + 1]
     ELSE /\ lastOp' = [op |-> "embed", wrapper |-> 0, result |-> input, call |-> 0]
          /\ UNCHANGED <<wrappers, calls>>
  /\ UNCHANGED <<loadedSimulations, now>>
  /\ UNCHANGED NotPhet

\* The "Tải lại" button of the controls bar of wrapper w.
ReloadClick(w) ==
  /\ w \in WrapperIds
  /\ wrappers[w].showControls
  /\ ReloadCore("reload", w, wrappers[w].sim)
  /\ UNCHANGED NotPhet

\* The "Thử lại" button of the error state of wrapper w.
RetryClick(w) ==
  /\ w \in WrapperIds
  /\ wrappers[w].errorVisible
  /\ ReloadCore("retry", w, wrappers[w].sim)
  /\ UNCHANGED NotPhet

IframeLoad(w)  == IframeLoadCore(w) /\ UNCHANGED NotPhet
IframeError(w) == IframeErrorCore(w) /\ UNCHANGED NotPhet
Timeout(c)     == TimeoutCore(c) /\ UNCHANGED NotPhet
Tick           == TickCore /\ UNCHANGED NotPhet

InitPhet ==
  /\ wrappers = <<>>
  /\ calls = <<>>
  /\ loadedSimulations = [s \in SimIds |-> 0]
  /\ now = 0
  /\ lastOp = NoOp

InitLoader ==
  /\ requests = <<>>
  /\ loadingQueue = <<>>
  /\ currentLoads = 0
  /\ queueTimers = 0
  /\ loadStatistics = [totalLoads |-> 0, successfulLoads |-> 0, failedLoads |-> 0]
  /\ preloadCache = {}

\* The filters object of the constructor and of clearFilters.  "null" stands
\* for null; strings that are searched are sequences of characters.
NoFilters ==
  [subject |-> "null", gradeLevel |-> "null", difficulty |-> "null",
   tags |-> <<>>, keyword |-> <<>>]

InitFilter ==
  /\ allSimulations = <<>>
  /\ currentFilters = NoFilters
  /\ filteredResults = <<>>
  /\ filterOp = "constructor"

\* No fetchWithRetry call has been made.
IdleCall ==
  [ pc |-> "idle", attempt |-> 0, startedAt |-> 0, lastError |-> "none",
    timer |-> 0, attempts |-> <<>>, delays |-> <<>>, returned |-> 0,
    handler |-> FALSE, reported |-> 0 ]

InitFetch ==
  /\ fetchCall = IdleCall
  /\ fetchClock = 0
  /\ errorReports = 0
  /\ fetchCallsStarted = 0

\* A storage item: nothing stored, a string JSON.parse rejects, the JSON text
\* null, or the JSON text of an object with or without the three fields.
Absent ==
  [ kind |-> "absent", username |-> FALSE, loginTime |-> FALSE,
    hasExpiresAt |-> FALSE, expiresAt |-> 0 ]

NoStorage == [session |-> Absent, local |-> Absent]

NoAuthOp == [called |-> FALSE, before |-> NoStorage, result |-> FALSE, after |-> NoStorage]

NoWatch == [active |-> FALSE, expiresAt |-> 0, extended |-> FALSE]

\* The browser before the teacher page is opened; the clock starts at 1 so
\* that a stored session can have expired already.
InitAuth ==
  /\ sessionItem = Absent
  /\ localItem = Absent
  /\ authNow = 1
  /\ page = "closed"
  /\ activityDue = 0
  /\ warningDue = 0
  /\ lastActivity = 0
  /\ warningShown = FALSE
  /\ dialogOpen = FALSE
  /\ authOp = NoAuthOp
  /\ watch = NoWatch

\* The constructor's state; nothing is stored yet (no item: nextId 0).
NothingStored == [simulations |-> <<>>, nextId |-> 0]

InitManager ==
  /\ customSimulations = <<>>
  /\ nextId = 1
  /\ storedSimulations = NothingStored

\* The simulation ids the tracker is called with.
TrackerIds == 1..MaxTrackerIds

\* An entry of completed / accessed: completedAt or accessedAt, and the size
\* of the metadata spread into it (an entry without metadata is far below 1 MB).
NoEntry == [present |-> FALSE, at |-> 0, bulk |-> 0]
TrackerEntry(at, bulk) == [present |-> TRUE, at |-> at, bulk |-> bulk]
NoEntries == [id \in TrackerIds |-> NoEntry]

\* A field of the completion data that should hold a map of entries: what
\* typeof says of it (null is an "object" that holds nothing) and its entries.
MapOf(entries) == [type |-> "object", isNull |-> FALSE, entries |-> entries]
NullValue      == [type |-> "object", isNull |-> TRUE, entries |-> NoEntries]
OtherValue(t)  == [type |-> t, isNull |-> FALSE, entries |-> NoEntries]

\* createEmptyData
createEmptyData ==
  [completed |-> MapOf(NoEntries), accessed |-> MapOf(NoEntries), lastUpdated |-> "number"]

\* localStorage holds no item edulab_completion_data.  Of a stored item the
\* model keeps the length of the string.
NoItem == [present |-> FALSE, length |-> 0]

NoTrackerOp ==
  [op |-> "none", result |-> "none", save |-> "none", rounds |-> 0,
   changed |-> FALSE, streak |-> 0,
   doc |-> [type |-> "none", isNull |-> FALSE, data |-> createEmptyData]]

\* The constructor: nothing is stored, loadCompletionData returns the empty data.
InitTracker ==
  /\ completionData = createEmptyData
  /\ storedCompletion = NoItem
  /\ trackerNow = 0
  /\ trackerOp = NoTrackerOp

\* The collections of createDefaultCollections.  A collection keeps its id
\* (default-<subject>: kind "default"; collection-N: kind "collection"; an id
\* property holding undefined), its name, subject, isDefault and description,
\* and key, which tells the collection objects apart and is no property of
\* the program's objects.
DefaultCollection(n, name, subject) ==
  [ key |-> n, id |-> [kind |-> "default", n |-> n], name |-> name,
    subject |-> subject, isDefault |-> "true", description |-> "basic" ]

defaultCollections ==
  << DefaultCollection(1, "Vat ly", "physics"),
     DefaultCollection(2, "Hoa hoc", "chemistry"),
     DefaultCollection(3, "Sinh hoc", "biology"),
     DefaultCollection(4, "Toan hoc", "mathematics") >>

\* createDefaultCollections(): each default collection whose id no collection
\* of the list has is pushed.
createDefaultCollections(list) ==
  list \o SelectSeq(defaultCollections,
                    LAMBDA d : \A i \in DOMAIN list : list[i].id # d.id)

NoCollectionOp == [op |-> "none", target |-> 0, error |-> "none", changed |-> FALSE]

\* The constructor and init(): nothing is stored, the defaults are created.
InitCollection ==
  /\ collections = createDefaultCollections(<<>>)
  /\ collectionNextId = 1
  /\ storedCollections = [present |-> FALSE, collections |-> <<>>, nextId |-> 1]
  /\ collectionOp = NoCollectionOp

\* A URL: its host, the directory and the extension of its path, and the
\* number of the page for the HTML pages of the site.
Url(host, dir, ext, n) == [host |-> host, dir |-> dir, ext |-> ext, n |-> n]

\* Of STATIC_CACHE_URLS the model keeps a style sheet and the simulation data.
STATIC_CACHE_URLS ==
  { Url("own", "/css/", "css", 0), Url("own", "/data/", "json", 0) }

NoFetchEvent ==
  [ request |-> [method |-> "none", url |-> Url("none", "/", "", 0)],
    strategy |-> "none", answer |-> "none", wrote |-> "none" ]

\* The worker is installed: cache.addAll(STATIC_CACHE_URLS) has succeeded.
InitWorker ==
  /\ staticCache = STATIC_CACHE_URLS
  /\ dynamicCache = <<>>
  /\ swOp = NoFetchEvent

NoFilterObject ==
  [subject |-> "absent", gradeLevel |-> "absent", difficulty |-> "absent",
   hasTags |-> FALSE, tags |-> <<>>]

\* No search has been made.
InitSearch ==
  searchOp = [called |-> FALSE, keyword |-> <<>>, filters |-> NoFilterObject,
              results |-> <<>>]

\* The cache keys loadJSON is called with: loadSubjects, loadSimulations.
CacheKeys == {"subjects", "simulations"}

NoJsonOp == [op |-> "none", key |-> "none", result |-> "none", promise |-> 0]

\* The constructor: both maps are empty.
InitJson ==
  /\ jsonCache = [k \in CacheKeys |-> 0]
  /\ loadingPromises = [k \in CacheKeys |-> 0]
  /\ jsonFetches = {}
  /\ jsonStarted = 0
  /\ jsonOp = NoJsonOp

\* The browser's constructor: no filter, nothing displayed.
InitBrowser ==
  /\ browserFilters = [subject |-> "null", gradeLevel |-> "null",
                       difficulty |-> "null", search |-> <<>>]
  /\ simulationsGrid = <<>>
  /\ resultsCount = -1
  /\ renders = <<>>
  /\ searchTimeout = FALSE
  /\ isInitialized = "no"
  /\ staleFilters = FALSE

ErrorIds == 1..MaxErrors

NoRetryInfo == [present |-> FALSE, callback |-> "none", attempts |-> 0]

NoErrorOp ==
  [op |-> "none", id |-> 0, type |-> "none", button |-> FALSE, executed |-> "none"]

\* The error handler after its constructor and init(): the container is
\* there and empty, the retry map is empty.
InitError ==
  /\ errorElements = {}
  /\ retryAttempts = [id \in ErrorIds |-> NoRetryInfo]
  /\ errorsReported = 0
  /\ reloadsPending = 0
  /\ fetchesPending = 0
  /\ errorOp = NoErrorOp

Init ==
  /\ InitPhet /\ InitLoader /\ InitFilter /\ InitFetch /\ InitAuth /\ InitManager
  /\ InitTracker /\ InitCollection /\ InitWorker /\ InitSearch /\ InitJson
  /\ InitBrowser /\ InitError

NextPhet ==
  \/ \E sim \in SimIds, input \in {"ok", "no_container", "invalid"} :
          EmbedSimulation(sim, DefaultOptions, input)
  \/ \E w \in 1..MaxWrappers : ReloadClick(w)
  \/ \E w \in 1..MaxWrappers : RetryClick(w)
  \/ \E w \in 1..MaxWrappers : IframeLoad(w)
  \/ \E w \in 1..MaxWrappers : IframeError(w)
  \/ \E c \in 1..MaxCalls : Timeout(c)
  \/ Tick

SpecPhet == Init /\ [][NextPhet]_vars

\* Timers that are due fire and the clock advances: the event loop runs.
FairSpecPhet ==
  /\ SpecPhet
  /\ WF_vars(Tick)
  /\ \A c \in 1..MaxCalls : WF_vars(Timeout(c))

----------------------------------------------------------------------------
(***************************************************************************)
(* Claims about PhETIntegration.                                           *)
(***************************************************************************)

EmbedFailed(w) ==
  \E c \in CallIds :
    calls[c].wrapper = w /\ calls[c].kind = "embed" /\ calls[c].state = "rejected"

\* C1: every loadSimulation call has exactly one outcome, decided by the first
\* of load, error and timeout: while it is pending no handler has run and both
\* listeners and both timers are in place; once it is decided exactly one
\* handler has run, the timers are cleared and the listeners removed (so no
\* later event reaches the call), it is resolved exactly when the cause was
\* load and rejected exactly when the cause was error or timeout.
C1_ExactlyOneOutcome ==
  \A c \in CallIds :
    LET k == calls[c] IN
    /\ k.state = "pending" =>
         /\ k.settles = 0
         /\ k.loadListener /\ k.errorListener
         /\ k.loadTimeout /\ k.progressInterval
    /\ k.state # "pending" =>
         /\ k.settles = 1
         /\ ~k.loadListener /\ ~k.errorListener
         /\ ~k.loadTimeout /\ ~k.progressInterval
    /\ (k.state = "resolved") <=> (k.cause = "load")
    /\ (k.state = "rejected") <=> (k.cause \in {"error", "timeout"})

C1_Witness ==
  \E c, d, e \in CallIds :
    /\ calls[c].cause = "load"
    /\ calls[d].cause = "timeout"
    /\ calls[e].cause = "error"

\* C2: every loadSimulation call eventually settles, and it is never pending
\* for longer than loadingTimeout: without a load or error event the timeout
\* rejects it.  A decided call stays decided, so "call c, once made, is
\* decided infinitely often" says that it eventually settles.
C2_EveryCallSettles ==
  /\ [](\A c \in CallIds :
          calls[c].state = "pending" => now <= calls[c].startedAt + LoadingTimeout)
  /\ \A c \in 1..MaxCalls :
       []<>(c \in CallIds => calls[c].state # "pending")

C2_Witness ==
  \E c \in CallIds :
    /\ calls[c].cause = "timeout"
    /\ calls[c].state = "rejected"
    /\ now = calls[c].startedAt + LoadingTimeout
    /\ ~wrappers[calls[c].wrapper].loadingVisible

\* C3: after embedSimulation failed for a simulation its wrapper shows the
\* error state, and activating the retry button of that wrapper starts a new
\* load attempt for that simulation.
C3_RetryStartsLoad ==
  /\ \A w \in WrapperIds : EmbedFailed(w) => wrappers[w].errorVisible
  /\ (lastOp.op = "retry" /\ EmbedFailed(lastOp.wrapper)) =>
       /\ lastOp.result = "started"
       /\ wrappers[calls[lastOp.call].wrapper].sim = wrappers[lastOp.wrapper].sim

----------------------------------------------------------------------------
(***************************************************************************)
(*                            SimulationLoader                             *)
(*                                                                         *)
(* The loader embeds through PhETIntegration.embedSimulation, so its       *)
(* specification shares the wrappers, the calls and the clock above.       *)
(* Simulation "unknown" is one dataManager.getSimulationById does not      *)
(* find; "bad" is found but fails validateSimulation in embedSimulation.   *)
(***************************************************************************)

LoaderSimIds == {"s1", "bad", "unknown"}

\* preloadSimulations passes showHeader: false, showControls: false.
PreloadOptions == [showHeader |-> FALSE, showControls |-> FALSE, timeout |-> 0]

\* loadWithFallback: { ...options, showHeader: false, showControls: false,
\* timeout: 60000 }
fallbackOptions(options) ==
  [options EXCEPT !.showHeader = FALSE, !.showControls = FALSE,
                  !.timeout = FallbackTimeout]

LoaderState ==
  [ requests       |-> requests,
    loadingQueue   |-> loadingQueue,
    currentLoads   |-> currentLoads,
    queueTimers    |-> queueTimers,
    loadStatistics |-> loadStatistics,
    preloadCache   |-> preloadCache ]

SetLoader(L) ==
  /\ requests' = L.requests
  /\ loadingQueue' = L.loadingQueue
  /\ currentLoads' = L.currentLoads
  /\ queueTimers' = L.queueTimers
  /\ loadStatistics' = L.loadStatistics
  /\ preloadCache' = L.preloadCache

NewRequest(id, via, options) ==
  [ sim |-> id, via |-> via, attempt |-> 1, state |-> "fetching",
    options |-> options, call |-> 0 ]

updateStatistics(L, success) ==
  [L EXCEPT !.loadStatistics.totalLoads = @ + 1,
            !.loadStatistics.successfulLoads = IF success THEN @ + 1 ELSE @,
            !.loadStatistics.failedLoads = IF success THEN @ ELSE @ + 1]

\* loadSimulation's try block ends: statistics; preloadSimulations then adds
\* the id to the preload cache.
RequestSucceeded(L, r) ==
  LET L1 == updateStatistics(L, TRUE) IN
  [L1 EXCEPT !.requests[r].state = "done",
             !.preloadCache = IF L.requests[r].via = "preload"
                              THEN @ \cup {L.requests[r].sim} ELSE @]

\* loadSimulation's catch block: statistics, rethrow.  loadWithFallback then
\* calls loadSimulation once more with the fallback options; its second
\* failure ends in showFallbackError.
RequestFailed(L, r) ==
  LET L1 == updateStatistics(L, FALSE)
      q  == L.requests[r] IN
  IF q.via = "fallback" /\ q.attempt = 1
  THEN [L1 EXCEPT !.requests[r] =
          [q EXCEPT !.attempt = 2, !.state = "fetching",
                    !.options = fallbackOptions(q.options), !.call = 0]]
  ELSE [L1 EXCEPT !.requests[r].state = "failed"]

\* A finally block that sets no timer for the requests waiting.
MutFinallyNoTimer(L, ok) ==
  [L EXCEPT !.currentLoads = @ - 1]

\* processQueue after its await: resolve or reject the request; finally
\* currentLoads-- and, with requests waiting, setTimeout(processQueue, 100).
Finally(L, ok) ==
  [L EXCEPT !.currentLoads = @ - 1,
            !.queueTimers = IF L.loadingQueue # <<>> THEN @ + 1 ELSE @]

EmbedSettled(L, r, ok) ==
  LET L1 == Finally(L, ok) IN
  IF ok THEN RequestSucceeded(L1, r) ELSE RequestFailed(L1, r)

\* The guard at the head of processQueue.
MutQueueGuardOffByOne(L) ==
  L.currentLoads > MaxConcurrentLoads \/ Len(L.loadingQueue) = 0

QueueBlocked(L) ==
  L.currentLoads >= MaxConcurrentLoads \/ Len(L.loadingQueue) = 0

\* processQueue() run in loader state L, up to its await (and, when
\* embedSimulation throws before it creates a wrapper, through its finally).
processQueue(L) ==
  IF QueueBlocked(L)
  THEN SetLoader(L) /\ UNCHANGED <<wrappers, calls>>
  ELSE LET r  == Head(L.loadingQueue)
           L1 == [L EXCEPT !.loadingQueue = Tail(@), !.currentLoads = @ + 1]
       IN IF L.requests[r].sim = "bad"
          THEN SetLoader(EmbedSettled(L1, r, FALSE)) /\ UNCHANGED <<wrappers, calls>>
          ELSE /\ CanStartCall
               /\ EmbedStart(L.requests[r].sim, L.requests[r].options, r)
               /\ SetLoader([L1 EXCEPT !.requests[r].state = "embedding",
                                       !.requests[r].call = Len(calls) + 1])

\* queueLoad: push the request, then processQueue().
queueLoad(L, r) ==
  processQueue([L EXCEPT !.requests[r].state = "queued",
                         !.loadingQueue = Append(@, r)])

RequestIds == 1..Len(requests)

\* The requests still waiting for their first getSimulationById answer.
Fetching ==
  {r \in RequestIds : requests[r].state = "fetching" /\ requests[r].attempt = 1}

StartRequest(id, via, options) ==
  /\ Len(requests) < MaxRequests
  /\ Cardinality(Fetching) < MaxFetching
  /\ requests' = Append(requests, NewRequest(id, via, options))
  /\ UNCHANGED <<loadingQueue, currentLoads, queueTimers, loadStatistics, preloadCache>>
  /\ UNCHANGED <<phetVars, NotPhetLoader>>

\* loadSimulation(simulationId, container, options) up to its first await;
\* loadMultipleSimulations makes these calls one after the other.
LoadSimulation(id) == StartRequest(id, "load", DefaultOptions)

\* preloadSimulations: one loadSimulation per id that is not in the cache.
PreloadSimulation(id) ==
  /\ id \notin preloadCache
  /\ StartRequest(id, "preload", PreloadOptions)

\* loadWithFallback(simulationId, container, options) up to its first await.
LoadWithFallback(id) == StartRequest(id, "fallback", DefaultOptions)

\* dataManager.getSimulationById answers request r: not found throws, found
\* goes on to queueLoad.
DataReady(r) ==
  /\ r \in RequestIds
  /\ requests[r].state = "fetching"
  /\ IF requests[r].sim = "unknown"
     THEN SetLoader(RequestFailed(LoaderState, r)) /\ UNCHANGED <<wrappers, calls>>
     ELSE queueLoad(LoaderState, r)
  /\ UNCHANGED <<loadedSimulations, now, lastOp, NotPhetLoader>>

\* The 100 ms timer set by processQueue's finally fires.
QueueTimer ==
  /\ queueTimers > 0
  /\ processQueue([LoaderState EXCEPT !.queueTimers = @ - 1])
  /\ UNCHANGED <<loadedSimulations, now, lastOp, NotPhetLoader>>

\* The loader's side of an iframe event: the embedSimulation calls among S
\* that the event decides return to processQueue.
LoaderContinues(S, ok) ==
  IF Deciding(S) = {}
  THEN UNCHANGED loaderVars
  ELSE LET c == CHOOSE c \in Deciding(S) : TRUE IN
       SetLoader(EmbedSettled(LoaderState, calls[c].owner, ok))

LoaderIframeLoad(w) ==
  IframeLoadCore(w) /\ LoaderContinues(LoadListeners(w), TRUE)
    /\ UNCHANGED NotPhetLoader

LoaderIframeError(w) ==
  IframeErrorCore(w) /\ LoaderContinues(ErrorListeners(w), FALSE)
    /\ UNCHANGED NotPhetLoader

LoaderTimeout(c) ==
  TimeoutCore(c) /\ LoaderContinues({c}, FALSE) /\ UNCHANGED NotPhetLoader

\* A 100 ms timer fires before a 10 s tick goes by.
LoaderTick ==
  /\ queueTimers = 0
  /\ TickCore
  /\ UNCHANGED <<loaderVars, NotPhetLoader>>

\* The loading queue: requests arrive, are answered by the data manager, are
\* embedded, and their iframes load or fail.
NextLoader ==
  \/ \E id \in {"s1", "bad"} : LoadSimulation(id)
  \/ \E id \in {"s1"} : PreloadSimulation(id)
  \/ \E id \in {"s1", "unknown"} : LoadWithFallback(id)
  \/ \E r \in 1..MaxRequests : DataReady(r)
  \/ QueueTimer
  \/ \E w \in 1..MaxCalls : LoaderIframeLoad(w)
  \/ \E w \in 1..MaxCalls : LoaderIframeError(w)

SpecLoader == Init /\ [][NextLoader]_vars

\* loadWithFallback on the clock: the loading timeouts of its attempts.
NextFallback ==
  \/ \E id \in {"s1", "unknown"} : LoadWithFallback(id)
  \/ \E r \in 1..MaxRequests : DataReady(r)
  \/ QueueTimer
  \/ \E w \in 1..MaxCalls : LoaderIframeLoad(w)
  \/ \E w \in 1..MaxCalls : LoaderIframeError(w)
  \/ \E c \in 1..MaxCalls : LoaderTimeout(c)
  \/ LoaderTick

SpecFallback == Init /\ [][NextFallback]_vars

\* The queue on its own: loadSimulation and preloadSimulations requests, each
\* of which takes one embedSimulation call.
NextQueue ==
  \/ \E id \in {"s1", "bad"} : LoadSimulation(id)
  \/ \E id \in {"s1"} : PreloadSimulation(id)
  \/ \E r \in 1..MaxRequests : DataReady(r)
  \/ QueueTimer
  \/ \E w \in 1..MaxCalls : LoaderIframeLoad(w)
  \/ \E w \in 1..MaxCalls : LoaderIframeError(w)

SpecQueue == Init /\ [][NextQueue]_vars

\* The embedSimulation call c that processQueue awaits returns or throws.
EmbedTerminates(c) ==
  /\ c \in CallIds
  /\ calls[c].state = "pending"
  /\ \E w \in 1..MaxCalls : LoaderIframeLoad(w) \/ LoaderIframeError(w)
  /\ calls'[c].state # "pending"

\* The event loop runs the 100 ms timers processQueue sets, and every
\* embedSimulation call terminates.
FairSpecQueue ==
  /\ SpecQueue
  /\ WF_vars(QueueTimer)
  /\ \A c \in 1..MaxCalls : WF_vars(EmbedTerminates(c))

----------------------------------------------------------------------------
(***************************************************************************)
(* Claims about SimulationLoader.                                          *)
(***************************************************************************)

\* The embedSimulation calls started by processQueue that have not settled.
InProgress ==
  {c \in CallIds : calls[c].kind = "embed" /\ calls[c].owner # 0
                     /\ calls[c].state = "pending"}

\* C8: at no time are more than maxConcurrentLoads embedSimulation calls
\* started by the loader in progress, and currentLoads is their number.
C8_ConcurrencyControl ==
  /\ Cardinality(InProgress) <= MaxConcurrentLoads
  /\ currentLoads = Cardinality(InProgress)

C8_Witness ==
  /\ Cardinality(InProgress) = MaxConcurrentLoads
  /\ currentLoads = MaxConcurrentLoads
  /\ loadingQueue # <<>>

\* Request r has been pushed by queueLoad and its promise is not settled.
Accepted(r) ==
  r \in RequestIds /\ requests[r].state \in {"queued", "embedding"}

\* Request r waits in loadingQueue.
Waiting(r) == \E i \in DOMAIN loadingQueue : loadingQueue[i] = r

\* C20: provided each embedSimulation call terminates, every request accepted
\* by queueLoad is eventually started and its promise eventually settled: no
\* request stays in loadingQueue forever, whatever the timing of new requests
\* and load completions.  "Infinitely often not waiting" says that whenever
\* the request waits it later does not: it has been started; likewise settled.
C20_QueueDrains ==
  \A r \in 1..MaxRequests :
    /\ []<>~Waiting(r)
    /\ []<>~Accepted(r)

\* Requests wait while no load is in progress: only the timers set by the
\* finally blocks will start them.
C20_Witness ==
  /\ loadingQueue # <<>>
  /\ currentLoads = 0
  /\ queueTimers > 0

FallbackCalls == {c \in CallIds : calls[c].timeoutOpt = FallbackTimeout}

\* C9: when the first attempt of loadWithFallback fails exactly one fallback
\* attempt is made, with header and controls hidden and a timeout of 60000 ms:
\* the fallback attempt is not timed out before 60 s have elapsed, whereas the
\* first attempt is timed out after 30 s.
C9_FallbackTimeout ==
  /\ \A r \in RequestIds :
       /\ requests[r].attempt \in {1, 2}
       /\ requests[r].state = "failed" => requests[r].attempt = 2
       /\ Cardinality({c \in CallIds : calls[c].owner = r}) <= 2
  /\ \A c \in CallIds :
       LET k == calls[c] IN
       IF c \in FallbackCalls
       THEN /\ ~wrappers[k.wrapper].showHeader
            /\ ~wrappers[k.wrapper].showControls
            /\ k.cause = "timeout" => k.timedOutAt >= k.startedAt + FallbackTimeout
       ELSE k.cause = "timeout" => k.timedOutAt = k.startedAt + LoadingTimeout

----------------------------------------------------------------------------
(***************************************************************************)
(*                              ContentFilter                              *)
(*                                                                         *)
(* Strings that are searched are sequences of the characters a, b, A, B    *)
(* and space.  A simulation record carries the fields the filter reads;    *)
(* hasTags and hasTopics say whether the record has a tags array and the   *)
(* topics / learningObjectives arrays (data.simulations is validated for   *)
(* id, title, subject, gradeLevel and phetUrl only, custom simulations for *)
(* title, description, subject, gradeLevel and phetUrl only).  Grade level *)
(* "[10]" is the array [10] of a custom simulation, which is === to no     *)
(* filter value.                                                           *)
(***************************************************************************)

Catalogue ==
  << [ id |-> "sim1", subject |-> "physics", gradeLevel |-> "10",
       difficulty |-> "easy", hasTags |-> TRUE, tags |-> <<"force", "motion">>,
       title |-> <<"A", "b">>, description |-> <<"b">>,
       hasTopics |-> TRUE, topics |-> << <<"b", "a">> >>, learningObjectives |-> <<>>,
       hasInstructions |-> FALSE, instructions |-> <<>>,
       hasVocabulary |-> FALSE, vocabulary |-> <<>> ],
     [ id |-> "sim2", subject |-> "physics", gradeLevel |-> "11",
       difficulty |-> "hard", hasTags |-> TRUE, tags |-> <<"atoms">>,
       title |-> <<"b", " ", "a">>, description |-> <<"a">>,
       hasTopics |-> TRUE, topics |-> <<>>, learningObjectives |-> << <<"a", "B">> >>,
       hasInstructions |-> TRUE, instructions |-> <<"B", "b">>,
       hasVocabulary |-> FALSE, vocabulary |-> <<>> ],
     [ id |-> "sim3", subject |-> "chemistry", gradeLevel |-> "10",
       difficulty |-> "easy", hasTags |-> TRUE, tags |-> <<"atoms", "force">>,
       title |-> <<"B">>, description |-> <<"b">>,
       hasTopics |-> TRUE, topics |-> <<>>, learningObjectives |-> <<>>,
       hasInstructions |-> FALSE, instructions |-> <<>>,
       hasVocabulary |-> TRUE,
       vocabulary |-> << [term |-> <<"a", "b">>, definition |-> <<"A", "A">>] >> ],
     [ id |-> "custom-1", subject |-> "physics", gradeLevel |-> "[10]",
       difficulty |-> "easy", hasTags |-> FALSE, tags |-> <<>>,
       title |-> <<"a", "b">>, description |-> <<"a">>,
       hasTopics |-> FALSE, topics |-> <<>>, learningObjectives |-> <<>>,
       hasInstructions |-> FALSE, instructions |-> <<>>,
       hasVocabulary |-> FALSE, vocabulary |-> <<>> ] >>

\* The records with the indices S, in catalogue order: data.simulations
\* followed by the custom simulations.
RECURSIVE Listing(_)
Listing(S) ==
  IF S = {} THEN <<>>
  ELSE LET m == CHOOSE x \in S : \A y \in S : x <= y
       IN <<Catalogue[m]>> \o Listing(S \ {m})

\* The lists loadAllSimulations can be given.
Loadable ==
  {Listing(S) : S \in {T \in SUBSET (1..Len(Catalogue)) : Cardinality(T) <= MaxLoaded}}

\* JavaScript truthiness of a filter value.
Truthy(v) == v \notin {"null", ""}

Lower(ch) == IF ch = "A" THEN "a" ELSE IF ch = "B" THEN "b" ELSE ch

toLowerCase(str) == [i \in 1..Len(str) |-> Lower(str[i])]

RECURSIVE trimStart(_)
trimStart(str) ==
  IF str # <<>> /\ Head(str) = " " THEN trimStart(Tail(str)) ELSE str

RECURSIVE trimEnd(_)
trimEnd(str) ==
  IF str # <<>> /\ str[Len(str)] = " "
  THEN trimEnd(SubSeq(str, 1, Len(str) - 1)) ELSE str

trim(str) == trimEnd(trimStart(str))

\* String.prototype.includes
includes(str, part) ==
  \E i \in 0..(Len(str) - Len(part)) : SubSeq(str, i + 1, i + Len(part)) = part

vocabularyFields(vocabulary) ==
  [i \in 1..(2 * Len(vocabulary)) |->
     IF i % 2 = 1 THEN vocabulary[(i + 1) \div 2].term
     ELSE vocabulary[i \div 2].definition]

\* The searchFields array matchesKeyword builds.
searchFields(simulation) ==
  <<simulation.title, simulation.description>>
    \o simulation.topics \o simulation.learningObjectives
    \o <<IF simulation.hasInstructions THEN simulation.instructions ELSE <<>> >>
    \o (IF simulation.hasVocabulary
        THEN vocabularyFields(simulation.vocabulary) ELSE <<>>)

\* matchesKeyword(simulation, keyword), keyword already in lower case.
MutMatchesKeywordCaseSensitive(simulation, keyword) ==
  \E i \in DOMAIN searchFields(simulation) :
    includes(searchFields(simulation)[i], keyword)

matchesKeyword(simulation, keyword) ==
  \E i \in DOMAIN searchFields(simulation) :
    includes(toLowerCase(searchFields(simulation)[i]), keyword)

hasSomeTag(simulation, tags) ==
  \E t \in DOMAIN tags : \E j \in DOMAIN simulation.tags : simulation.tags[j] = tags[t]

\* applyFilters() over the list all with the filters given: the results, or
\* threw when sim.tags.includes or the spread of simulation.topics meets a
\* record without the array (a TypeError, raised before filteredResults is
\* assigned).
applyFilters(all, filters) ==
  LET r1 == IF Truthy(filters.subject)
            THEN SelectSeq(all, LAMBDA sim : sim.subject = filters.subject)
            ELSE all
      r2 == IF Truthy(filters.gradeLevel)
            THEN SelectSeq(r1, LAMBDA sim : sim.gradeLevel = filters.gradeLevel)
            ELSE r1
      r3 == IF Truthy(filters.difficulty)
            THEN SelectSeq(r2, LAMBDA sim : sim.difficulty = filters.difficulty)
            ELSE r2
      tagsThrow == Len(filters.tags) > 0 /\ \E i \in DOMAIN r3 : ~r3[i].hasTags
      r4 == IF Len(filters.tags) > 0
            THEN SelectSeq(r3, LAMBDA sim : hasSomeTag(sim, filters.tags))
            ELSE r3
      keywordThrow == filters.keyword # <<>> /\ \E i \in DOMAIN r4 : ~r4[i].hasTopics
      r5 == IF filters.keyword # <<>>
            THEN SelectSeq(r4, LAMBDA sim :
                                 matchesKeyword(sim, toLowerCase(filters.keyword)))
            ELSE r4
  IN [threw |-> tagsThrow \/ keywordThrow, results |-> r5]

\* A method that ends in "return this.applyFilters()": the list and the
\* filters it has set up, and the results as they were before the call.
ApplyAndFinish(op, all, filters, before) ==
  LET a == applyFilters(all, filters) IN
  /\ allSimulations' = all
  /\ currentFilters' = filters
  /\ filteredResults' = IF a.threw THEN before ELSE a.results
  /\ filterOp' = IF a.threw THEN "threw" ELSE op
  /\ UNCHANGED NotFilter

\* loadAllSimulations() after its await: data.simulations and the custom
\* simulations; the results become a copy of the whole list.
LoadAllSimulations(data) ==
  /\ allSimulations' = data
  /\ filteredResults' = data
  /\ filterOp' = "loadAllSimulations"
  /\ UNCHANGED currentFilters
  /\ UNCHANGED NotFilter

\* refreshSimulations(): loadAllSimulations, then applyFilters.
RefreshSimulations(data) ==
  ApplyAndFinish("refreshSimulations", data, currentFilters, data)

SetSubjectFilter(subjectId) ==
  ApplyAndFinish("setSubjectFilter", allSimulations,
                 [currentFilters EXCEPT !.subject = subjectId], filteredResults)

SetGradeLevelFilter(gradeLevel) ==
  ApplyAndFinish("setGradeLevelFilter", allSimulations,
                 [currentFilters EXCEPT !.gradeLevel = gradeLevel], filteredResults)

SetDifficultyFilter(difficulty) ==
  ApplyAndFinish("setDifficultyFilter", allSimulations,
                 [currentFilters EXCEPT !.difficulty = difficulty], filteredResults)

\* tags is [isArray, value]: Array.isArray(tags) ? tags : []
SetTagsFilter(tags) ==
  ApplyAndFinish("setTagsFilter", allSimulations,
                 [currentFilters EXCEPT !.tags = IF tags.isArray THEN tags.value ELSE <<>>],
                 filteredResults)

\* keyword is [given, value]: (keyword || '').trim()
SetKeywordFilter(keyword) ==
  ApplyAndFinish("setKeywordFilter", allSimulations,
                 [currentFilters EXCEPT
                    !.keyword = trim(IF keyword.given THEN keyword.value ELSE <<>>)],
                 filteredResults)

\* setFilters(filters): the fields of filters that are not undefined.
SetFilters(filters) ==
  ApplyAndFinish("setFilters", allSimulations,
    [ subject    |-> IF "subject" \in filters.given
                     THEN filters.subject ELSE currentFilters.subject,
      gradeLevel |-> IF "gradeLevel" \in filters.given
                     THEN filters.gradeLevel ELSE currentFilters.gradeLevel,
      difficulty |-> IF "difficulty" \in filters.given
                     THEN filters.difficulty ELSE currentFilters.difficulty,
      tags       |-> IF "tags" \in filters.given
                     THEN (IF filters.tags.isArray THEN filters.tags.value ELSE <<>>)
                     ELSE currentFilters.tags,
      keyword    |-> IF "keyword" \in filters.given
                     THEN trim(IF filters.keyword.given
                               THEN filters.keyword.value ELSE <<>>)
                     ELSE currentFilters.keyword ],
    filteredResults)

ClearFilters ==
  ApplyAndFinish("clearFilters", allSimulations, NoFilters, filteredResults)

getResults == filteredResults

\* The arguments the browser page and the URL parameters hand to the setters.
SubjectInputs    == {"null", "", "physics", "chemistry"}
GradeLevelInputs == {"null", "10", "11"}
DifficultyInputs == {"null", "hard"}

TagsInputs ==
  { [isArray |-> TRUE,  value |-> <<>>],
    [isArray |-> TRUE,  value |-> <<"force">>],
    [isArray |-> TRUE,  value |-> <<"motion", "atoms">>],
    [isArray |-> FALSE, value |-> <<>>] }

KeywordInputs ==
  { [given |-> FALSE, value |-> <<>>],
    [given |-> TRUE,  value |-> <<" ">>],
    [given |-> TRUE,  value |-> <<"A", "b">>],
    [given |-> TRUE,  value |-> <<" ", "b", " ">>],
    [given |-> TRUE,  value |-> <<"b", " ", "a">>],
    [given |-> TRUE,  value |-> <<"a", "a">>] }

FiltersInputs ==
  { [ given |-> {"subject", "keyword"}, subject |-> "physics",
      gradeLevel |-> "null", difficulty |-> "null",
      tags |-> [isArray |-> TRUE, value |-> <<>>],
      keyword |-> [given |-> TRUE, value |-> <<"A", "b", " ">>] ],
    [ given |-> {"subject", "tags", "keyword"}, subject |-> "physics",
      gradeLevel |-> "null", difficulty |-> "null",
      tags |-> [isArray |-> TRUE, value |-> <<"force">>],
      keyword |-> [given |-> TRUE, value |-> <<"B">>] ],
    [ given |-> {"gradeLevel", "difficulty"}, subject |-> "null",
      gradeLevel |-> "10", difficulty |-> "hard",
      tags |-> [isArray |-> TRUE, value |-> <<>>],
      keyword |-> [given |-> FALSE, value |-> <<>>] ],
    [ given |-> {"tags", "keyword"}, subject |-> "null",
      gradeLevel |-> "null", difficulty |-> "null",
      tags |-> [isArray |-> FALSE, value |-> <<>>],
      keyword |-> [given |-> FALSE, value |-> <<>>] ],
    [ given |-> {}, subject |-> "null",
      gradeLevel |-> "null", difficulty |-> "null",
      tags |-> [isArray |-> TRUE, value |-> <<>>],
      keyword |-> [given |-> FALSE, value |-> <<>>] ] }

NextFilter ==
  \/ \E data \in Loadable : LoadAllSimulations(data)
  \/ \E data \in Loadable : RefreshSimulations(data)
  \/ \E subjectId \in SubjectInputs : SetSubjectFilter(subjectId)
  \/ \E gradeLevel \in GradeLevelInputs : SetGradeLevelFilter(gradeLevel)
  \/ \E difficulty \in DifficultyInputs : SetDifficultyFilter(difficulty)
  \/ \E tags \in TagsInputs : SetTagsFilter(tags)
  \/ \E keyword \in KeywordInputs : SetKeywordFilter(keyword)
  \/ \E filters \in FiltersInputs : SetFilters(filters)
  \/ ClearFilters

SpecFilter == Init /\ [][NextFilter]_vars

----------------------------------------------------------------------------
(***************************************************************************)
(* Claims about ContentFilter.                                             *)
(***************************************************************************)

SetterOps ==
  {"setSubjectFilter", "setGradeLevelFilter", "setDifficultyFilter",
   "setTagsFilter", "setKeywordFilter", "setFilters", "clearFilters"}

\* Field contains part, letter case ignored.
ContainsIgnoringCase(field, part) ==
  \E i \in 0..(Len(field) - Len(part)) :
    \A k \in 1..Len(part) : Lower(field[i + k]) = Lower(part[k])

\* Simulation sim satisfies every active filter of f.
Satisfies(sim, f) ==
  /\ Truthy(f.subject) => sim.subject = f.subject
  /\ Truthy(f.gradeLevel) => sim.gradeLevel = f.gradeLevel
  /\ Truthy(f.difficulty) => sim.difficulty = f.difficulty
  /\ f.tags # <<>> =>
       /\ sim.hasTags
       /\ \E t \in DOMAIN f.tags : \E j \in DOMAIN sim.tags : sim.tags[j] = f.tags[t]
  /\ f.keyword # <<>> =>
       \E i \in DOMAIN searchFields(sim) :
         ContainsIgnoringCase(searchFields(sim)[i], f.keyword)

----------------------------------------------------------------------------
(***************************************************************************)
(*                       DataManager.fetchWithRetry                        *)
(*                                                                         *)
(* One tick of fetchClock is 1000 ms.  A fetch is answered after any       *)
(* number of ticks; the answer is the data, or one of the failures of the  *)
(* try block: fetch rejects, the response is not ok, response.json()       *)
(* rejects, validateData throws.                                           *)
(***************************************************************************)

FetchOutcomes == {"ok", "network_error", "http_error", "bad_json", "invalid_data"}

\* The argument of this.delay in the catch block.
MutRetryWaitConstant(attempt) == RetryDelay

retryWait(attempt) == RetryDelay * attempt

\* The head of the for loop, entered with attempt already set: one more
\* attempt, or the code after the loop (handleNetworkError if
\* window.ErrorHandler is there, then throw).
LoopHead(call, attempt, handler) ==
  IF attempt <= RetryAttempts
  THEN [call EXCEPT !.pc = "fetching", !.attempt = attempt, !.startedAt = fetchClock]
  ELSE [call EXCEPT !.pc = "thrown", !.handler = handler,
                    !.reported = IF handler THEN @ + 1 ELSE @]

\* fetchWithRetry(url, cacheKey) up to the first await.
FetchWithRetry ==
  /\ fetchCall.pc \in {"idle", "returned", "thrown"}
  /\ fetchCallsStarted < MaxFetchCalls
  /\ fetchClock + retryWait(1) + retryWait(2) <= MaxFetchTime
  /\ fetchCall' = LoopHead(IdleCall, 1, FALSE)
  /\ fetchCallsStarted' = fetchCallsStarted + 1
  /\ UNCHANGED <<fetchClock, errorReports>>
  /\ UNCHANGED NotFetch

\* The try block of the running attempt ends with outcome; handler is the
\* value of window.ErrorHandler should the loop end here.
Response(outcome, handler) ==
  LET done == [fetchCall EXCEPT
                 !.attempts = Append(@, [outcome |-> outcome,
                                         startedAt |-> fetchCall.startedAt,
                                         endedAt |-> fetchClock])]
      next ==
        IF outcome = "ok"
        THEN [done EXCEPT !.pc = "returned", !.returned = fetchCall.attempt]
        ELSE IF fetchCall.attempt < RetryAttempts
        THEN [done EXCEPT !.pc = "delaying", !.lastError = outcome,
                          !.delays = Append(@, retryWait(fetchCall.attempt)),
                          !.timer = fetchClock + retryWait(fetchCall.attempt)]
        ELSE LoopHead([done EXCEPT !.lastError = outcome],
                      fetchCall.attempt + 1, handler)
  IN
  /\ fetchCall.pc = "fetching"
  /\ fetchCall' = next
  /\ errorReports' = errorReports + (next.reported - fetchCall.reported)
  /\ UNCHANGED <<fetchClock, fetchCallsStarted>>
  /\ UNCHANGED NotFetch

\* The timer of this.delay fires: attempt++ and back to the head of the loop.
DelayElapsed ==
  /\ fetchCall.pc = "delaying"
  /\ fetchClock >= fetchCall.timer
  /\ fetchCall' = LoopHead(fetchCall, fetchCall.attempt + 1, FALSE)
  /\ UNCHANGED <<fetchClock, errorReports, fetchCallsStarted>>
  /\ UNCHANGED NotFetch

FetchTick ==
  /\ fetchCall.pc \in {"fetching", "delaying"}
  /\ fetchClock < MaxFetchTime
  /\ ~(fetchCall.pc = "delaying" /\ fetchClock >= fetchCall.timer)
  /\ fetchClock' = fetchClock + 1
  /\ UNCHANGED <<fetchCall, errorReports, fetchCallsStarted>>
  /\ UNCHANGED NotFetch

NextFetch ==
  \/ FetchWithRetry
  \/ \E outcome \in FetchOutcomes, handler \in BOOLEAN : Response(outcome, handler)
  \/ DelayElapsed
  \/ FetchTick

SpecFetch == Init /\ [][NextFetch]_vars

----------------------------------------------------------------------------
(***************************************************************************)
(*                               TeacherAuth                               *)
(*                                                                         *)
(* The methods are operators on the pair of storage items and the time;    *)
(* each returns its result together with the storage it leaves behind,     *)
(* since isLoggedIn restores and clears items as it goes.                  *)
(***************************************************************************)

SessionRecord(expiresAt) ==
  [ kind |-> "object", username |-> TRUE, loginTime |-> TRUE,
    hasExpiresAt |-> TRUE, expiresAt |-> expiresAt ]

Storage == [session |-> sessionItem, local |-> localItem]

\* clearSession(): removeItem on sessionStorage and on localStorage.
MutClearSessionKeepsLocal(S) == [S EXCEPT !.session = Absent]

clearSession(S) == [session |-> Absent, local |-> Absent]

\* isLoggedIn() at time t.
isLoggedIn(S, t) ==
  LET sessionData == IF S.session.kind # "absent" THEN S.session ELSE S.local
      restored    == [S EXCEPT !.session = sessionData]
  IN
  IF sessionData.kind = "absent"
  THEN [result |-> FALSE, storage |-> S]
  ELSE IF sessionData.kind # "object"       \* JSON.parse or session.username throws
  THEN [result |-> FALSE, storage |-> clearSession(restored)]
  ELSE IF ~sessionData.username \/ ~sessionData.loginTime \/ ~sessionData.hasExpiresAt
  THEN [result |-> FALSE, storage |-> clearSession(restored)]
  ELSE IF t > sessionData.expiresAt
  THEN [result |-> FALSE, storage |-> clearSession(restored)]
  ELSE [result |-> TRUE, storage |-> restored]

\* getSession(): null (Absent) unless logged in.
getSession(S, t) ==
  LET r == isLoggedIn(S, t) IN
  [ session |-> IF r.result THEN r.storage.session ELSE Absent,
    storage |-> r.storage ]

\* getTimeUntilExpiry(): Math.max(0, Math.floor(timeLeft / (1000 * 60)))
getTimeUntilExpiry(S, t) ==
  LET g == getSession(S, t)
      minutes == (g.session.expiresAt - t) \div Minute
  IN [ minutes |-> IF g.session.kind = "absent" THEN 0
                   ELSE IF minutes > 0 THEN minutes ELSE 0,
       storage |-> g.storage ]

extendSession(S, t) ==
  LET g == getSession(S, t)
      session == [g.session EXCEPT !.expiresAt = t + SessionDuration]
  IN IF g.session.kind = "absent"
     THEN [ok |-> FALSE, storage |-> g.storage]
     ELSE [ok |-> TRUE, storage |-> [session |-> session, local |-> session]]

createSession(t) ==
  [ session |-> SessionRecord(t + SessionDuration),
    local   |-> SessionRecord(t + SessionDuration) ]

\* What an isLoggedIn() call made in the current state finds and returns.
LoggedInCall ==
  LET r == isLoggedIn(Storage, authNow) IN
  [called |-> TRUE, before |-> Storage, result |-> r.result, after |-> r.storage]

SetStorage(S) ==
  /\ sessionItem' = S.session
  /\ localItem' = S.local

\* logout(): clearSession, then location.href = 'teacher-login.html'; the
\* page and its timers are gone.
Logout(S) ==
  /\ SetStorage(clearSession(S))
  /\ page' = "login"
  /\ activityDue' = 0
  /\ warningDue' = 0
  /\ dialogOpen' = FALSE

\* What the storages can hold when the teacher page is opened: sessions that
\* expired 30 s ago, expire in 30 s, in 90 s or in 14 min, and damaged items.
StoredItems ==
  { Absent,
    [Absent EXCEPT !.kind = "unparsable"],
    [Absent EXCEPT !.kind = "null"],
    [SessionRecord(29) EXCEPT !.username = FALSE],
    [SessionRecord(29) EXCEPT !.loginTime = FALSE],
    [SessionRecord(0) EXCEPT !.hasExpiresAt = FALSE],
    SessionRecord(0), SessionRecord(2), SessionRecord(4), SessionRecord(29) }

\* The browser opens a teacher page; the storages hold what earlier pages,
\* other tabs or the user left there.
PageLoad(session, local) ==
  /\ page = "closed"
  /\ sessionItem' = session
  /\ localItem' = local
  /\ page' = "loading"
  /\ authOp' = NoAuthOp
  /\ UNCHANGED <<authNow, activityDue, warningDue, lastActivity, warningShown,
                 dialogOpen, watch>>
  /\ UNCHANGED NotAuth

\* init(): requireLogin() on a protected page, then, if logged in,
\* setupActivityExtension() and setupExpiryWarning().
PageInit(protected) ==
  LET r1 == isLoggedIn(Storage, authNow)
      redirected == protected /\ ~r1.result
      r2 == IF protected THEN isLoggedIn(r1.storage, authNow) ELSE r1
  IN
  /\ page = "loading"
  /\ SetStorage(r2.storage)
  /\ page' = IF redirected THEN "login" ELSE "open"
  /\ activityDue' = IF r2.result THEN authNow + CheckInterval ELSE 0
  /\ warningDue' = IF r2.result THEN authNow + CheckInterval ELSE 0
  /\ lastActivity' = IF r2.result THEN authNow ELSE lastActivity
  /\ watch' = IF r2.result
              THEN [active |-> TRUE, expiresAt |-> r2.storage.session.expiresAt,
                    extended |-> FALSE]
              ELSE NoWatch
  /\ authOp' = LoggedInCall
  /\ UNCHANGED <<authNow, warningShown, dialogOpen>>
  /\ UNCHANGED NotAuth

\* A script of the page calls TeacherAuth.isLoggedIn().
IsLoggedInCall ==
  /\ page \in {"loading", "open"}
  /\ ~dialogOpen
  /\ SetStorage(isLoggedIn(Storage, authNow).storage)
  /\ authOp' = LoggedInCall
  /\ UNCHANGED <<authNow, page, activityDue, warningDue, lastActivity,
                 warningShown, dialogOpen, watch>>
  /\ UNCHANGED NotAuth

\* mousedown, mousemove, keypress, scroll, touchstart or click.
UserActivity ==
  /\ page = "open"
  /\ activityDue # 0
  /\ ~dialogOpen
  /\ lastActivity # authNow
  /\ lastActivity' = authNow
  /\ authOp' = NoAuthOp
  /\ UNCHANGED <<sessionItem, localItem, authNow, page, activityDue, warningDue,
                 warningShown, dialogOpen, watch>>
  /\ UNCHANGED NotAuth

\* The interval of setupActivityExtension.
ActivityCheck ==
  LET r == isLoggedIn(Storage, authNow)
      active == r.result /\ authNow - lastActivity < ExtendInterval
      left == getTimeUntilExpiry(r.storage, authNow)
      extend == active /\ left.minutes < ExtendThreshold
      e == extendSession(left.storage, authNow)
  IN
  /\ page = "open"
  /\ ~dialogOpen
  /\ activityDue # 0
  /\ authNow >= activityDue
  /\ SetStorage(IF extend THEN e.storage ELSE IF active THEN left.storage ELSE r.storage)
  /\ watch' = IF extend /\ e.ok THEN [watch EXCEPT !.extended = TRUE] ELSE watch
  /\ activityDue' = authNow + CheckInterval
  /\ authOp' = LoggedInCall
  /\ UNCHANGED <<authNow, page, warningDue, lastActivity, warningShown, dialogOpen>>
  /\ UNCHANGED NotAuth

\* The interval of setupExpiryWarning; it was set up after the other one and
\* with the same period, so it runs after it.
WarningCheck ==
  LET r == isLoggedIn(Storage, authNow)
      left == getTimeUntilExpiry(r.storage, authNow)
      warn == r.result /\ left.minutes <= WarningThreshold /\ left.minutes > 0
      out  == r.result /\ ~warn /\ left.minutes <= 0
  IN
  /\ page = "open"
  /\ ~dialogOpen
  /\ warningDue # 0
  /\ authNow >= warningDue
  /\ activityDue > authNow
  /\ authOp' = LoggedInCall
  /\ IF out
     THEN /\ Logout(left.storage)
          /\ UNCHANGED warningShown
     ELSE /\ SetStorage(IF r.result THEN left.storage ELSE r.storage)
          /\ warningDue' = authNow + CheckInterval
          /\ warningShown' = (warningShown \/ warn)
          /\ dialogOpen' = (warn /\ ~warningShown)
          /\ UNCHANGED <<page, activityDue>>
  /\ UNCHANGED <<authNow, lastActivity, watch>>
  /\ UNCHANGED NotAuth

\* The teacher answers the confirm() of showExpiryWarning with OK.
DialogOk ==
  LET e == extendSession(Storage, authNow) IN
  /\ dialogOpen
  /\ SetStorage(e.storage)
  /\ watch' = IF e.ok THEN [watch EXCEPT !.extended = TRUE] ELSE watch
  /\ warningShown' = FALSE
  /\ dialogOpen' = FALSE
  /\ authOp' = LoggedInCall
  /\ UNCHANGED <<authNow, page, activityDue, warningDue, lastActivity>>
  /\ UNCHANGED NotAuth

\* The teacher answers it with Cancel.
DialogCancel ==
  /\ dialogOpen
  /\ Logout(Storage)
  /\ authOp' = NoAuthOp
  /\ UNCHANGED <<authNow, lastActivity, warningShown, watch>>
  /\ UNCHANGED NotAuth

\* The logout button that renderLogoutButton shows to a logged-in teacher.
LogoutClick ==
  /\ page = "open"
  /\ activityDue # 0
  /\ ~dialogOpen
  /\ Logout(Storage)
  /\ authOp' = NoAuthOp
  /\ UNCHANGED <<authNow, lastActivity, warningShown, watch>>
  /\ UNCHANGED NotAuth

\* The login page accepts the credentials: createSession, then the teacher
\* page is loaded anew.
Login ==
  /\ page = "login"
  /\ SetStorage(createSession(authNow))
  /\ page' = "loading"
  /\ warningShown' = FALSE
  /\ watch' = NoWatch
  /\ authOp' = NoAuthOp
  /\ UNCHANGED <<authNow, activityDue, warningDue, lastActivity, dialogOpen>>
  /\ UNCHANGED NotAuth

\* An interval that is due runs before the clock moves on, unless the
\* confirm() dialog blocks the page.
ChecksDue ==
  \/ activityDue # 0 /\ authNow >= activityDue
  \/ warningDue # 0 /\ authNow >= warningDue

AuthTick ==
  /\ page = "open"
  /\ activityDue # 0
  /\ authNow < MaxAuthTime
  /\ dialogOpen \/ ~ChecksDue
  /\ authNow' = authNow + 1
  /\ authOp' = NoAuthOp
  /\ UNCHANGED <<sessionItem, localItem, page, activityDue, warningDue,
                 lastActivity, warningShown, dialogOpen, watch>>
  /\ UNCHANGED NotAuth

NextAuth ==
  \/ \E session \in StoredItems, local \in StoredItems : PageLoad(session, local)
  \/ \E protected \in BOOLEAN : PageInit(protected)
  \/ IsLoggedInCall
  \/ UserActivity
  \/ ActivityCheck
  \/ WarningCheck
  \/ DialogOk
  \/ DialogCancel
  \/ LogoutClick
  \/ Login
  \/ AuthTick

SpecAuth == Init /\ [][NextAuth]_vars

----------------------------------------------------------------------------
(***************************************************************************)
(* Claims about TeacherAuth.                                               *)
(***************************************************************************)

\* The record a call looks at: the sessionStorage item, else the localStorage one.
Consulted(S) == IF S.session.kind # "absent" THEN S.session ELSE S.local

Complete(item) ==
  item.kind = "object" /\ item.username /\ item.loginTime /\ item.hasExpiresAt

\* C6: isLoggedIn() returns true only when the stored record has username,
\* loginTime and expiresAt and the time is not later than expiresAt; when the
\* record is unparsable, malformed or expired it returns false and leaves
\* neither sessionStorage nor localStorage with a session item.
C6_IsLoggedIn ==
  authOp.called =>
    LET item == Consulted(authOp.before) IN
    /\ authOp.result => (Complete(item) /\ authNow <= item.expiresAt)
    /\ (item.kind # "absent" /\ (~Complete(item) \/ authNow > item.expiresAt)) =>
         /\ ~authOp.result
         /\ authOp.after = NoStorage

C6_Witness ==
  /\ authOp.called
  /\ Complete(authOp.before.session)
  /\ authOp.before.local.kind = "object"
  /\ authNow > authOp.before.session.expiresAt
  /\ authOp.before.session.expiresAt > 1
  /\ ~authOp.result
  /\ sessionItem = Absent
  /\ localItem = Absent

\* C7: a session that is not extended does not outlive its expiry time on an
\* open page: once expiresAt has passed and the periodic checks that are due
\* have run, the teacher is logged out - the session is gone from both
\* storages and the page has been redirected to teacher-login.html.
C7_AutoLogout ==
  (watch.active /\ ~watch.extended /\ authNow > watch.expiresAt /\ ~ChecksDue) =>
    /\ page = "login"
    /\ sessionItem = Absent
    /\ localItem = Absent

----------------------------------------------------------------------------
(***************************************************************************)
(*                            SimulationManager                            *)
(*                                                                         *)
(* A simulation record keeps its id property, its phetUrl and whether it   *)
(* came in through importSimulations.  The id property is absent, holds    *)
(* undefined, holds custom-N, or holds an id given from outside.  The      *)
(* field wellFormed of a data record says whether validateSimulationData   *)
(* accepts it (required fields, URL format, subject, gradeLevel array).    *)
(***************************************************************************)

NoIdProperty == [kind |-> "absent", n |-> 0]
Undefined    == [kind |-> "undefined", n |-> 0]
GivenId      == [kind |-> "given", n |-> 0]
CustomId(n)  == [kind |-> "custom", n |-> n]

Urls == {"url1", "url2"}

\* What reading sim.id yields.
IdOf(sim) == IF sim.id.kind = "absent" THEN Undefined ELSE sim.id

Manager ==
  [ customSimulations |-> customSimulations, nextId |-> nextId,
    storedSimulations |-> storedSimulations ]

SetManager(M) ==
  /\ customSimulations' = M.customSimulations
  /\ nextId' = M.nextId
  /\ storedSimulations' = M.storedSimulations

validateSimulationData(data) == data.wellFormed

\* JSON.stringify leaves out a property whose value is undefined.
Stringified(sim) ==
  [sim EXCEPT !.id = IF @.kind = "undefined" THEN NoIdProperty ELSE @]

saveToStorage(M) ==
  [M EXCEPT !.storedSimulations =
     [ simulations |-> [i \in DOMAIN M.customSimulations |->
                          Stringified(M.customSimulations[i])],
       nextId |-> M.nextId ]]

\* The object literal of addSimulation:
\* { id: `custom-${this.nextId++}`, ...simulationData, isCustom: true, ... }
\* - a property id of simulationData, whatever its value, replaces the new id.
NewSimulation(M, simulationData) ==
  [ id |-> IF simulationData.id.kind = "absent"
           THEN CustomId(M.nextId) ELSE simulationData.id,
    phetUrl |-> simulationData.phetUrl,
    imported |-> simulationData.imported ]

\* addSimulation(simulationData): the manager afterwards (unchanged when the
\* validation fails and the call throws).
addSimulation(M, simulationData) ==
  IF ~validateSimulationData(simulationData)
  THEN M
  ELSE saveToStorage(
         [M EXCEPT !.customSimulations = Append(@, NewSimulation(M, simulationData)),
                   !.nextId = @ + 1])

\* The loop of importSimulations over importData.simulations.
RECURSIVE importSimulations(_, _, _)
importSimulations(M, simulations, merge) ==
  IF simulations = <<>> THEN M
  ELSE LET simData == Head(simulations)
           exists == \E i \in DOMAIN M.customSimulations :
                       M.customSimulations[i].phetUrl = simData.phetUrl
           M1 == IF exists /\ merge THEN M
                 ELSE IF ~validateSimulationData(simData) THEN M
                 ELSE addSimulation(M, [simData EXCEPT !.id = Undefined,
                                                       !.imported = TRUE])
       IN importSimulations(M1, Tail(simulations), merge)

\* The records the admin form submits: no id property.
FormData ==
  { [id |-> NoIdProperty, phetUrl |-> u, wellFormed |-> v, imported |-> FALSE] :
      u \in Urls, v \in BOOLEAN }

\* The records of an import file: exported custom simulations (id custom-N),
\* records with an id of their own, records without id.
ImportRecords ==
  { [id |-> i, phetUrl |-> u, wellFormed |-> v, imported |-> FALSE] :
      i \in {NoIdProperty, CustomId(1), GivenId}, u \in Urls, v \in BOOLEAN }

ImportLists == UNION {[1..n -> ImportRecords] : n \in 1..MaxImport}

AddSimulation(simulationData) ==
  /\ Len(customSimulations) < MaxCustom
  /\ nextId < MaxNextId
  /\ SetManager(addSimulation(Manager, simulationData))
  /\ UNCHANGED NotManager

ImportSimulations(simulations, merge) ==
  /\ Len(customSimulations) + Len(simulations) <= MaxCustom
  /\ nextId + Len(simulations) <= MaxNextId
  /\ SetManager(importSimulations(Manager, simulations, merge))
  /\ UNCHANGED NotManager

\* deleteSimulation(simulationId) with the id read from the i-th entry of
\* the list the admin page shows: findIndex, splice, saveToStorage.
DeleteSimulation(i) ==
  /\ i \in DOMAIN customSimulations
  /\ LET simulationId == IdOf(customSimulations[i])
         index == CHOOSE j \in DOMAIN customSimulations :
                    /\ IdOf(customSimulations[j]) = simulationId
                    /\ \A k \in 1..(j - 1) : IdOf(customSimulations[k]) # simulationId
     IN SetManager(saveToStorage(
          [Manager EXCEPT !.customSimulations =
             SubSeq(@, 1, index - 1) \o SubSeq(@, index + 1, Len(@))]))
  /\ UNCHANGED NotManager

ResetAllSimulations ==
  /\ customSimulations # <<>>
  /\ SetManager(saveToStorage([Manager EXCEPT !.customSimulations = <<>>, !.nextId = 1]))
  /\ UNCHANGED NotManager

\* The page is loaded again: constructor, then loadFromStorage (nothing
\* stored, or data.simulations || [] and data.nextId || 1).
ManagerReload ==
  /\ customSimulations' = storedSimulations.simulations
  /\ nextId' = IF storedSimulations.nextId = 0 THEN 1 ELSE storedSimulations.nextId
  /\ UNCHANGED storedSimulations
  /\ UNCHANGED NotManager

NextManager ==
  \/ \E simulationData \in FormData : AddSimulation(simulationData)
  \/ \E simulations \in ImportLists, merge \in BOOLEAN :
       ImportSimulations(simulations, merge)
  \/ \E i \in 1..MaxCustom : DeleteSimulation(i)
  \/ ResetAllSimulations
  \/ ManagerReload

SpecManager == Init /\ [][NextManager]_vars

\* C10: every simulation stored by importSimulations has an id custom-N that
\* no other custom simulation has, whatever id the imported record carried.
C10_ImportedIdsUnique ==
  \A i \in DOMAIN customSimulations :
    customSimulations[i].imported =>
      /\ IdOf(customSimulations[i]).kind = "custom"
      /\ \A j \in DOMAIN customSimulations :
           j # i => IdOf(customSimulations[j]) # IdOf(customSimulations[i])

\* The records of an import list that validateSimulationData accepts.
ValidImported(simulations) ==
  SelectSeq(simulations, LAMBDA simData : validateSimulationData(simData))

\* C11: importSimulations with merge = false replaces the custom simulations:
\* after the call the custom list consists of the valid imported simulations,
\* in their order, and of none of the simulations stored before.
C11_ReplaceOnImport ==
  [][\A simulations \in ImportLists :
       ImportSimulations(simulations, FALSE) =>
         /\ Len(customSimulations') = Len(ValidImported(simulations))
         /\ \A i \in DOMAIN customSimulations' :
              /\ customSimulations'[i].imported
              /\ customSimulations'[i].phetUrl = ValidImported(simulations)[i].phetUrl]_vars

----------------------------------------------------------------------------
(***************************************************************************)
(*                            CompletionTracker                            *)
(*                                                                         *)
(* The completion data keeps the fields validateDataStructure looks at:    *)
(* completed, accessed and lastUpdated.  An entry keeps its timestamp and  *)
(* the size of its metadata; dataString.length is the sum of these sizes.  *)
(* One entry of completed stands for a block of 500 completion records, so *)
(* that "more than 1000, keep 500" is "more than 2 blocks, keep 1".        *)
(* saveCompletionData and the methods calling it are synchronous: each     *)
(* public method is one step.                                              *)
(***************************************************************************)

Keys(entries) == {id \in TrackerIds : entries[id].present}

RECURSIVE BulkOf(_, _)
BulkOf(entries, ids) ==
  IF ids = {} THEN 0
  ELSE LET id == CHOOSE i \in ids : TRUE
       IN entries[id].bulk + BulkOf(entries, ids \ {id})

\* JSON.stringify(this.completionData).length
StringLength(data) ==
  BulkOf(data.completed.entries, Keys(data.completed.entries))
    + BulkOf(data.accessed.entries, Keys(data.accessed.entries))

\* An accessedAt older than every cutoff the clock of the model reaches.
LongAgo == 0 - CleanupAge - 1

\* sort(([,a], [,b]) => b.completedAt - a.completedAt): a comes before b
\* (entries of equal completedAt keep their order, here the order of the ids).
SortsBefore(entries, a, b) ==
  \/ entries[a].at > entries[b].at
  \/ entries[a].at = entries[b].at /\ a < b

\* cleanupOldData at time t: the data afterwards, and whether it threw
\* (Object.keys or Object.entries of null).
cleanupOldData(data, t) ==
  IF data.accessed.isNull THEN [data |-> data, threw |-> TRUE]
  ELSE
    LET cutoffTime == t - CleanupAge
        accessed == [id \in TrackerIds |->
                       IF data.accessed.entries[id].present
                          /\ data.accessed.entries[id].at < cutoffTime
                       THEN NoEntry ELSE data.accessed.entries[id]]
        D1 == [data EXCEPT !.accessed.entries = accessed]
        completed == data.completed.entries
        kept == {id \in Keys(completed) :
                   Cardinality({j \in Keys(completed) : SortsBefore(completed, j, id)})
                     < CleanupKeep}
    IN IF data.completed.isNull THEN [data |-> D1, threw |-> TRUE]
       ELSE [ data |->
                [D1 EXCEPT !.completed.entries =
                   IF Cardinality(Keys(completed)) > CleanupLimit
                   THEN [id \in TrackerIds |->
                           IF id \in kept THEN completed[id] ELSE NoEntry]
                   ELSE completed,
                 !.lastUpdated = "number"],
              threw |-> FALSE ]

\* localStorage.setItem raises QuotaExceededError when the string does not fit
\* into the room the other items of the origin leave.
QuotaExceeded(data, room) == StringLength(data) >= room

Thrown(outcome) == outcome.result \in {"RangeError", "TypeError"}

\* saveCompletionData as the frame number depth of the call stack.  T holds
\* the completion data, the stored item and the number of cleanup rounds so
\* far.  The engine's stack holds MaxStackDepth frames of the method: the
\* RangeError of a full stack is raised on entry of the next frame, or inside
\* the try block of the deepest one (engine.inTry), and console.error in the
\* catch block of the deepest frame may raise it again (~engine.consoleOk).
RECURSIVE saveCompletionData(_, _, _, _, _)
saveCompletionData(T, room, t, depth, engine) ==
  IF depth > MaxStackDepth THEN [T EXCEPT !.result = "RangeError"]
  ELSE
    LET catch(T1, error) ==
          IF error = "RangeError" /\ depth = MaxStackDepth /\ ~engine.consoleOk
          THEN [T1 EXCEPT !.result = "RangeError"]
          ELSE [T1 EXCEPT !.result = "false"]
        C == cleanupOldData(T.data, t)
        T1 == [T EXCEPT !.data = C.data, !.rounds = @ + 1]
        retry == saveCompletionData(T1, room, t, depth + 1, engine)
    IN IF depth = MaxStackDepth /\ engine.inTry THEN catch(T, "RangeError")
       ELSE IF StringLength(T.data) > maxStorageSize
       THEN IF C.threw THEN catch(T1, "TypeError")
            ELSE IF Thrown(retry) THEN catch(retry, retry.result)
            ELSE retry
       ELSE IF QuotaExceeded(T.data, room)
       THEN IF C.threw THEN [T1 EXCEPT !.result = "TypeError"]
            ELSE retry
       ELSE [T EXCEPT !.stored = [present |-> TRUE, length |-> StringLength(T.data)],
                      !.result = "true"]

\* The environment of a call: the room left in localStorage and how the
\* engine behaves when its stack is full.
Rooms == {0, maxStorageSize, 2 * maxStorageSize}
Engines == [inTry : BOOLEAN, consoleOk : BOOLEAN]

\* The room matters only to data of at most maxStorageSize, and of such data
\* the retries go on until the stack is full only when there is no room at all.
Plain == [inTry |-> FALSE, consoleOk |-> TRUE]
Environments ==
  { [room |-> r, engine |-> Plain] : r \in Rooms }
    \cup { [room |-> 0, engine |-> e] : e \in Engines }

\* this.saveCompletionData() called by a public method on the data D.
Save(D, room, engine) ==
  saveCompletionData([data |-> D, stored |-> storedCompletion, rounds |-> 0,
                      result |-> "none"],
                     room, trackerNow, 1, engine)

\* A public method that changed the data to D and ends with
\* "const success = this.saveCompletionData(); return success" inside its try
\* block: an error thrown by the save is caught and the method returns false.
SaveAndReturn(op, D, room, engine) ==
  LET S == Save(D, room, engine)
  IN /\ completionData' = S.data
     /\ storedCompletion' = S.stored
     /\ trackerOp' = [NoTrackerOp EXCEPT !.op = op,
                        !.result = IF S.result = "true" THEN "true" ELSE "false",
                        !.save = S.result, !.rounds = S.rounds,
                        !.changed = (S.data # completionData)]

\* A public method whose try block threw before the data changed.
ReturnFalse(op) ==
  /\ trackerOp' = [NoTrackerOp EXCEPT !.op = op, !.result = "false"]
  /\ UNCHANGED <<completionData, storedCompletion>>

\* validateDataStructure(data) for what JSON.parse returned.
validateDataStructure(parsed) ==
  /\ parsed.type = "object"
  /\ ~parsed.isNull
  /\ parsed.data.completed.type = "object"
  /\ parsed.data.accessed.type = "object"
  /\ parsed.data.lastUpdated = "number"

\* The calendar day of a timestamp (toDateString) and the day's midnight
\* (new Date(dateString)).
DayOf(at) == at \div Day
Midnight(day) == day * Day

\* The loop of calculateStreak over the dates that are left, latest first.
RECURSIVE StreakLoop(_, _, _)
StreakLoop(dates, streak, currentDate) ==
  IF dates = {} THEN streak
  ELSE LET day == CHOOSE d \in dates : \A e \in dates : e <= d
           daysDiff == (currentDate - Midnight(day)) \div Day
       IN IF daysDiff = streak
          THEN StreakLoop(dates \ {day}, streak + 1, Midnight(day))
          ELSE streak

\* calculateStreak at time t (the completed field holds a map).
calculateStreak(data, t) ==
  LET completions == data.completed.entries
      completionDates == {DayOf(completions[id].at) : id \in Keys(completions)}
  IN IF Keys(completions) = {} THEN 0 ELSE StreakLoop(completionDates, 0, t)

\* markCompleted(simulationId, metadata)
MarkCompleted(simulationId, bulk, room, engine) ==
  /\ IF completionData.completed.isNull
     THEN ReturnFalse("markCompleted")
     ELSE SaveAndReturn("markCompleted",
            [completionData EXCEPT
               !.completed.entries[simulationId] = TrackerEntry(trackerNow, bulk),
               !.lastUpdated = "number"],
            room, engine)
  /\ UNCHANGED <<trackerNow, NotTracker>>

\* markAccessed(simulationId, metadata)
MarkAccessed(simulationId, bulk, room, engine) ==
  /\ IF completionData.accessed.isNull
     THEN ReturnFalse("markAccessed")
     ELSE SaveAndReturn("markAccessed",
            [completionData EXCEPT
               !.accessed.entries[simulationId] = TrackerEntry(trackerNow, bulk),
               !.lastUpdated = "number"],
            room, engine)
  /\ UNCHANGED <<trackerNow, NotTracker>>

\* clearCompletion(simulationId)
ClearCompletion(simulationId, room, engine) ==
  /\ IF completionData.completed.isNull
     THEN ReturnFalse("clearCompletion")
     ELSE SaveAndReturn("clearCompletion",
            [completionData EXCEPT !.completed.entries[simulationId] = NoEntry,
                                   !.lastUpdated = "number"],
            room, engine)
  /\ UNCHANGED <<trackerNow, NotTracker>>

\* clearAllData()
ClearAllData(room, engine) ==
  /\ completionData # createEmptyData
  /\ SaveAndReturn("clearAllData", createEmptyData, room, engine)
  /\ UNCHANGED <<trackerNow, NotTracker>>

\* importData(jsonData): JSON.parse throws, or validateDataStructure rejects
\* the parsed value, or the parsed value becomes the completion data.
ImportData(jsonData, room, engine) ==
  /\ IF jsonData.type = "unparsable" \/ ~validateDataStructure(jsonData)
     THEN /\ trackerOp' = [NoTrackerOp EXCEPT !.op = "importData", !.result = "false",
                                              !.doc = jsonData]
          /\ UNCHANGED <<completionData, storedCompletion>>
     ELSE LET S == Save(jsonData.data, room, engine)
          IN /\ completionData' = S.data
             /\ storedCompletion' = S.stored
             /\ trackerOp' = [NoTrackerOp EXCEPT !.op = "importData",
                                !.result = IF S.result = "true" THEN "true" ELSE "false",
                                !.save = S.result, !.rounds = S.rounds,
                                !.changed = (S.data # completionData),
                                !.doc = jsonData]
  /\ UNCHANGED <<trackerNow, NotTracker>>

\* getStatistics(): Object.keys of null throws; streakDays is calculateStreak().
GetStatistics ==
  /\ trackerOp' =
       IF completionData.completed.isNull \/ completionData.accessed.isNull
       THEN [NoTrackerOp EXCEPT !.op = "getStatistics", !.result = "TypeError"]
       ELSE [NoTrackerOp EXCEPT !.op = "getStatistics", !.result = "returned",
                                !.streak = calculateStreak(completionData, trackerNow)]
  /\ UNCHANGED <<completionData, storedCompletion, trackerNow, NotTracker>>

TrackerTick ==
  /\ trackerNow < MaxTrackerTime
  /\ trackerNow' = trackerNow + 1
  /\ trackerOp' = NoTrackerOp
  /\ UNCHANGED <<completionData, storedCompletion, NotTracker>>

\* The metadata markCompleted is called with: none, or bulky metadata for
\* simulation 1.
MetadataOf(simulationId) == IF simulationId = 1 THEN {0, BigMetadata} ELSE {0}

\* Objects whose JSON importData is called with.
DocOf(c, a, u) ==
  [type |-> "object", isNull |-> FALSE,
   data |-> [completed |-> c, accessed |-> a, lastUpdated |-> u]]

\* The strings importData is called with: no JSON, the JSON of null and of a
\* number, and the JSON of objects - well-formed ones, and ones with a field
\* that is null, a string, missing.
ImportDocs ==
  { [type |-> t, isNull |-> FALSE, data |-> createEmptyData] :
      t \in {"unparsable", "number"} }
  \cup { [type |-> "object", isNull |-> TRUE, data |-> createEmptyData] }
  \cup { DocOf(MapOf(NoEntries), MapOf(NoEntries), "number"),
         DocOf(MapOf([NoEntries EXCEPT ![1] = TrackerEntry(0, 0)]),
               MapOf(NoEntries), "number"),
         DocOf(MapOf([NoEntries EXCEPT ![1] = TrackerEntry(0, 0)]),
               MapOf([NoEntries EXCEPT ![1] = TrackerEntry(LongAgo, maxStorageSize)]),
               "number"),
         DocOf(MapOf([NoEntries EXCEPT ![1] = TrackerEntry(0, BigMetadata)]),
               MapOf(NoEntries), "number"),
         DocOf(NullValue, MapOf(NoEntries), "number"),
         DocOf(MapOf(NoEntries), NullValue, "number"),
         DocOf(OtherValue("string"), MapOf(NoEntries), "number"),
         DocOf(OtherValue("undefined"), MapOf(NoEntries), "number"),
         DocOf(MapOf(NoEntries), OtherValue("string"), "number"),
         DocOf(MapOf(NoEntries), OtherValue("undefined"), "number"),
         DocOf(MapOf(NoEntries), MapOf(NoEntries), "string"),
         DocOf(MapOf(NoEntries), MapOf(NoEntries), "undefined") }

NextTracker ==
  \/ \E id \in TrackerIds, env \in Environments :
       \E bulk \in MetadataOf(id) : MarkCompleted(id, bulk, env.room, env.engine)
  \/ \E env \in Environments : MarkAccessed(1, 0, env.room, env.engine)
  \/ \E id \in TrackerIds, env \in Environments :
       ClearCompletion(id, env.room, env.engine)
  \/ \E env \in Environments : ClearAllData(env.room, env.engine)
  \/ \E jsonData \in ImportDocs, env \in Environments :
       ImportData(jsonData, env.room, env.engine)
  \/ GetStatistics

\* Storing and importing, at one point in time.
SpecTracker == Init /\ [][NextTracker]_vars

\* Completions without metadata over several days, with room in localStorage.
NextStreak ==
  \/ \E id \in TrackerIds : MarkCompleted(id, 0, 2 * maxStorageSize, Plain)
  \/ \E id \in TrackerIds : ClearCompletion(id, 2 * maxStorageSize, Plain)
  \/ GetStatistics
  \/ TrackerTick

SpecStreak == Init /\ [][NextStreak]_vars

\* C12: saveCompletionData always ends by returning true or false, whatever
\* the completion data and the state of localStorage are - also when
\* cleanupOldData cannot make the data smaller or free any room.
C12_SaveReturnsBoolean ==
  trackerOp.save # "none" => trackerOp.save \in {"true", "false"}

\* The input of importData is the JSON of an object whose completed and
\* accessed fields are maps of entries and whose lastUpdated is a number.
StructurallyValid(doc) ==
  /\ doc.type = "object" /\ ~doc.isNull
  /\ doc.data.completed.type = "object" /\ ~doc.data.completed.isNull
  /\ doc.data.accessed.type = "object" /\ ~doc.data.accessed.isNull
  /\ doc.data.lastUpdated = "number"

\* C13: importData called with a string that is not valid JSON, or whose
\* completed or accessed field is not a map of entries, or whose lastUpdated
\* is not a number, returns false and leaves the completion data unchanged.
C13_ImportOnlyValidData ==
  (trackerOp.op = "importData" /\ ~StructurallyValid(trackerOp.doc)) =>
     trackerOp.result = "false" /\ ~trackerOp.changed

\* The calendar days on which something was completed.
CompletionDays ==
  {DayOf(completionData.completed.entries[id].at) :
     id \in Keys(completionData.completed.entries)}

\* The number of consecutive days in days, counted back from day.
RECURSIVE ConsecutiveDays(_, _)
ConsecutiveDays(days, day) ==
  IF day \in days THEN 1 + ConsecutiveDays(days, day - 1) ELSE 0

\* C18: the streak getStatistics reports (calculateStreak) is the number of
\* consecutive calendar days with a completion, counted back from today; it
\* is 0 when nothing was completed today.
C18_StreakCountsConsecutiveDays ==
  (trackerOp.op = "getStatistics" /\ trackerOp.result = "returned") =>
     trackerOp.streak = ConsecutiveDays(CompletionDays, DayOf(trackerNow))

----------------------------------------------------------------------------
(***************************************************************************)
(*                            CollectionManager                            *)
(*                                                                         *)
(* A property of a data object that is not there is "absent"; isDefault    *)
(* can also be there and hold undefined.  The methods are async but await  *)
(* only saveToStorage, which finishes without leaving the event loop's     *)
(* current task: each call is one step.                                    *)
(***************************************************************************)

\* if (x) for a name or subject.
Present(x) == x \notin {"absent", ""}

validSubjects == {"physics", "chemistry", "biology", "mathematics"}

\* The names the model uses, and data.name.length of each.
NameLength(name) ==
  CASE name = "A" -> 1
    [] name = "" -> 0
    [] OTHER -> 6

\* validateCollectionData(data).isValid
validateCollectionData(data) ==
  /\ Present(data.name) /\ Present(data.subject)
  /\ data.subject \in validSubjects
  /\ ~(NameLength(data.name) < 2 \/ NameLength(data.name) > 50)

\* { ...collection, ...updateData }: a property of updateData that is there
\* replaces the collection's, also when it holds undefined.
Merged(col, updateData) ==
  [ col EXCEPT
      !.name = IF updateData.name = "absent" THEN @ ELSE updateData.name,
      !.subject = IF updateData.subject = "absent" THEN @ ELSE updateData.subject,
      !.isDefault = IF updateData.isDefault = "absent" THEN @ ELSE updateData.isDefault,
      !.description = IF updateData.description = "absent" THEN @
                      ELSE updateData.description ]

\* findIndex(col => col.id === collectionId): 0 stands for -1.
FindIndex(list, collectionId) ==
  IF \E i \in DOMAIN list : list[i].id = collectionId
  THEN CHOOSE i \in DOMAIN list :
         /\ list[i].id = collectionId
         /\ \A j \in 1..(i - 1) : list[j].id # collectionId
  ELSE 0

CollectionState ==
  [ collections |-> collections, nextId |-> collectionNextId,
    stored |-> storedCollections, error |-> "none" ]

\* saveToStorage(): JSON.stringify leaves out a property holding undefined;
\* reading the property of the parsed object gives undefined again.
SavedCollections(C) ==
  [C EXCEPT !.stored = [present |-> TRUE, collections |-> C.collections,
                        nextId |-> C.nextId]]

\* createCollection(collectionData): the manager afterwards, error holding
\* the message of the Error thrown, if any.
createCollection(C, collectionData) ==
  IF ~validateCollectionData(collectionData)
  THEN [C EXCEPT !.error = "Validation failed"]
  ELSE IF \E i \in DOMAIN C.collections : C.collections[i].name = collectionData.name
  THEN [C EXCEPT !.error = "Collection name already exists"]
  ELSE SavedCollections(
         [C EXCEPT
            !.collections =
               Append(@, [ key |-> Len(defaultCollections) + C.nextId,
                           id |-> IF collectionData.id = "absent"
                                  THEN [kind |-> "collection", n |-> C.nextId]
                                  ELSE [kind |-> "undefined", n |-> 0],
                           name |-> collectionData.name,
                           subject |-> collectionData.subject,
                           isDefault |-> "false",
                           description |-> "custom" ]),
            !.nextId = @ + 1])

\* updateCollection(collectionId, updateData)
updateCollection(C, collectionId, updateData) ==
  LET index == FindIndex(C.collections, collectionId)
      col == C.collections[index]
  IN IF index = 0 THEN [C EXCEPT !.error = "Collection not found"]
     ELSE IF col.isDefault = "true"
             /\ (Present(updateData.name) \/ Present(updateData.subject)
                 \/ updateData.isDefault \notin {"absent", "undefined"})
     THEN [C EXCEPT !.error = "Cannot modify default collection properties"]
     ELSE IF ~validateCollectionData(Merged(col, updateData))
     THEN [C EXCEPT !.error = "Validation failed"]
     ELSE IF Present(updateData.name)
             /\ \E i \in DOMAIN C.collections :
                  i # index /\ C.collections[i].name = updateData.name
     THEN [C EXCEPT !.error = "Collection name already exists"]
     ELSE SavedCollections([C EXCEPT !.collections[index] = Merged(col, updateData)])

\* deleteCollection(collectionId)
deleteCollection(C, collectionId) ==
  LET index == FindIndex(C.collections, collectionId)
  IN IF index = 0 THEN [C EXCEPT !.error = "Collection not found"]
     ELSE IF C.collections[index].isDefault = "true"
     THEN [C EXCEPT !.error = "Cannot delete default collections"]
     ELSE SavedCollections(
            [C EXCEPT !.collections =
               SubSeq(@, 1, index - 1) \o SubSeq(@, index + 1, Len(@))])

\* The loop of importCollections over importData.collections; an Error of
\* createCollection is caught and counted.
RECURSIVE importCollections(_, _, _)
importCollections(C, list, merge) ==
  IF list = <<>> THEN C
  ELSE LET colData == Head(list)
           exists == \E i \in DOMAIN C.collections :
                       C.collections[i].name = colData.name
           C1 == IF exists /\ merge THEN C
                 ELSE IF ~validateCollectionData(colData) THEN C
                 ELSE [createCollection(C, [colData EXCEPT !.id = "undefined"])
                         EXCEPT !.error = "none"]
       IN importCollections(C1, Tail(list), merge)

SetCollections(op, target, C) ==
  /\ collections' = C.collections
  /\ collectionNextId' = C.nextId
  /\ storedCollections' = C.stored
  /\ collectionOp' = [op |-> op, target |-> target, error |-> C.error,
                      changed |-> (C.collections # collections)]

\* The data objects of the callers.
CollectionNames == {"", "A", "Optics", "Vat ly"}

CollectionData ==
  [ name : CollectionNames, subject : {"physics", "art"}, id : {"absent"},
    isDefault : {"absent", "true"} ]

NoUpdate ==
  [name |-> "absent", subject |-> "absent", isDefault |-> "absent",
   description |-> "absent"]

UpdateData ==
  { [NoUpdate EXCEPT !.name = "Optics"],
    [NoUpdate EXCEPT !.name = ""],
    [NoUpdate EXCEPT !.subject = "chemistry"],
    [NoUpdate EXCEPT !.isDefault = "false"],
    [NoUpdate EXCEPT !.isDefault = "undefined"],
    [NoUpdate EXCEPT !.description = "edited"],
    [NoUpdate EXCEPT !.name = "Optics", !.description = "edited"] }

\* The records of an import file: they carry an id and isDefault of their own.
CollectionImportLists ==
  UNION {[1..n -> [name : {"Optics", "Vat ly", "A"}, subject : {"physics"},
                   id : {"collection-1"}, isDefault : {"true"}]] :
           n \in 1..MaxImport}

\* The ids the callers pass: the ids of the first default collection and of
\* the collections created later.
CollectionIds ==
  {collections[i].id : i \in {j \in DOMAIN collections :
                                collections[j].key \notin 2..Len(defaultCollections)}}

KeyOf(collectionId) ==
  LET index == FindIndex(collections, collectionId)
  IN IF index = 0 THEN 0 ELSE collections[index].key

CreateCollection(collectionData) ==
  /\ Len(collections) < MaxCollections
  /\ collectionNextId < MaxCollectionId
  /\ SetCollections("createCollection", 0, createCollection(CollectionState, collectionData))
  /\ UNCHANGED NotCollection

UpdateCollection(collectionId, updateData) ==
  /\ SetCollections("updateCollection", KeyOf(collectionId),
                    updateCollection(CollectionState, collectionId, updateData))
  /\ UNCHANGED NotCollection

DeleteCollection(collectionId) ==
  /\ SetCollections("deleteCollection", KeyOf(collectionId),
                    deleteCollection(CollectionState, collectionId))
  /\ UNCHANGED NotCollection

ImportCollections(list, merge) ==
  /\ Len(collections) + Len(list) <= MaxCollections
  /\ collectionNextId + Len(list) <= MaxCollectionId
  /\ SetCollections("importCollections", 0, importCollections(CollectionState, list, merge))
  /\ UNCHANGED NotCollection

\* The page is loaded again: the constructor, loadFromStorage and
\* createDefaultCollections.
CollectionReload ==
  /\ collections' = createDefaultCollections(storedCollections.collections)
  /\ collectionNextId' = storedCollections.nextId
  /\ collectionOp' = NoCollectionOp
  /\ UNCHANGED <<storedCollections, NotCollection>>

NextCollection ==
  \/ \E collectionData \in CollectionData : CreateCollection(collectionData)
  \/ \E collectionId \in CollectionIds, updateData \in UpdateData :
       UpdateCollection(collectionId, updateData)
  \/ \E collectionId \in CollectionIds : DeleteCollection(collectionId)
  \/ \E list \in CollectionImportLists, merge \in BOOLEAN : ImportCollections(list, merge)
  \/ CollectionReload

SpecCollection == Init /\ [][NextCollection]_vars

\* C23: no two collections ever have the same name, whether they were made
\* by createCollection, updateCollection or importCollections, or by
\* initialisation: loading from storage followed by createDefaultCollections.
C23_NamesUnique ==
  \A i, j \in DOMAIN collections :
    i # j => collections[i].name # collections[j].name

\* C14: a collection with isDefault = true is never removed and its name,
\* subject and isDefault flag never change, whatever createCollection,
\* updateCollection, deleteCollection and importCollections calls are made;
\* deleteCollection of a default collection is rejected with 'Cannot delete
\* default collections' and changes nothing.
C14_DefaultsProtected ==
  /\ [][\A i \in DOMAIN collections :
          collections[i].isDefault = "true" =>
            \E j \in DOMAIN collections' :
              /\ collections'[j].key = collections[i].key
              /\ collections'[j].name = collections[i].name
              /\ collections'[j].subject = collections[i].subject
              /\ collections'[j].isDefault = "true"]_vars
  /\ [](\A i \in DOMAIN collections :
          (collectionOp.op = "deleteCollection"
             /\ collectionOp.target = collections[i].key
             /\ collections[i].isDefault = "true") =>
            /\ collectionOp.error = "Cannot delete default collections"
            /\ ~collectionOp.changed)

----------------------------------------------------------------------------
(***************************************************************************)
(*                             Service worker                              *)
(*                                                                         *)
(* A fetch event is handled in one step, from the dispatch on the request  *)
(* to the settling of the strategy's promises; what the network does with  *)
(* the request is an input of the step.                                    *)
(***************************************************************************)

StaticExtensions ==
  {"css", "js", "png", "jpg", "jpeg", "gif", "svg", "ico", "woff", "woff2", "ttf"}

\* url.pathname.match(/\.(css|js|...)$/)
isStaticAsset(request) == request.url.ext \in StaticExtensions

\* url.pathname.includes('/data/') || url.pathname.endsWith('.json')
isDataRequest(request) == request.url.dir = "/data/" \/ request.url.ext = "json"

\* url.hostname.includes('phet.colorado.edu')
isPhETRequest(request) == request.url.host = "phet.colorado.edu"

\* The strategy the fetch listener answers the request with ("none": the
\* listener returns without event.respondWith).
StrategyOf(request) ==
  IF request.method # "GET" THEN "none"
  ELSE IF request.url.host # "own" /\ ~isPhETRequest(request) THEN "none"
  ELSE IF isStaticAsset(request) THEN "cacheFirst"
  ELSE IF isDataRequest(request) THEN "networkFirst"
  ELSE IF isPhETRequest(request) THEN "networkOnly"
  ELSE "staleWhileRevalidate"

Holds(cache, url) == \E i \in DOMAIN cache : cache[i] = url

\* cache.put(request, response): an entry of the same URL is removed, the new
\* entry is appended.
Put(cache, url) == SelectSeq(cache, LAMBDA k : k # url) \o <<url>>

\* limitCacheSize(cache, maxSize): the oldest keys beyond maxSize are deleted.
limitCacheSize(cache, maxSize) ==
  IF Len(cache) > maxSize
  THEN SubSeq(cache, Len(cache) - maxSize + 1, Len(cache))
  ELSE cache

\* The outcomes of fetch(request): a response with ok, one without, an error.
NetworkOutcomes == {"ok", "notOk", "failed"}

Answered(request, strategy, answer, wrote) ==
  swOp' = [request |-> request, strategy |-> strategy, answer |-> answer,
           wrote |-> wrote]

cacheFirst(request, network) ==
  IF request.url \in staticCache
  THEN /\ Answered(request, "cacheFirst", "cache", "none")
       /\ UNCHANGED <<staticCache, dynamicCache>>
  ELSE IF network = "ok"
  THEN /\ staticCache' = staticCache \cup {request.url}
       /\ Answered(request, "cacheFirst", "network", "static")
       /\ UNCHANGED dynamicCache
  ELSE /\ Answered(request, "cacheFirst",
                   IF network = "failed" THEN "offline" ELSE "network", "none")
       /\ UNCHANGED <<staticCache, dynamicCache>>

networkFirst(request, network) ==
  IF network = "ok"
  THEN /\ dynamicCache' =
            Put(limitCacheSize(dynamicCache, MAX_DYNAMIC_CACHE_SIZE), request.url)
       /\ Answered(request, "networkFirst", "network", "dynamic")
       /\ UNCHANGED staticCache
  ELSE /\ Answered(request, "networkFirst",
                   IF network = "notOk" THEN "network"
                   ELSE IF Holds(dynamicCache, request.url) THEN "cache"
                   ELSE "offline",
                   "none")
       /\ UNCHANGED <<staticCache, dynamicCache>>

networkOnly(request, network) ==
  /\ Answered(request, "networkOnly",
              IF network = "failed" THEN "offline" ELSE "network", "none")
  /\ UNCHANGED <<staticCache, dynamicCache>>

staleWhileRevalidate(request, network) ==
  /\ dynamicCache' = IF network = "ok" THEN Put(dynamicCache, request.url)
                     ELSE dynamicCache
  /\ Answered(request, "staleWhileRevalidate",
              IF Holds(dynamicCache, request.url) THEN "cache"
              ELSE IF network = "failed" THEN "offline" ELSE "network",
              IF network = "ok" THEN "dynamic" ELSE "none")
  /\ UNCHANGED staticCache

\* The fetch listener.
FetchEvent(request, network) ==
  /\ LET strategy == StrategyOf(request)
     IN CASE strategy = "cacheFirst" -> cacheFirst(request, network)
          [] strategy = "networkFirst" -> networkFirst(request, network)
          [] strategy = "networkOnly" -> networkOnly(request, network)
          [] strategy = "staleWhileRevalidate" -> staleWhileRevalidate(request, network)
          [] OTHER -> /\ Answered(request, "none", "network", "none")
                      /\ UNCHANGED <<staticCache, dynamicCache>>
  /\ UNCHANGED NotWorker

\* The message CLEAR_CACHE: clearDynamicCache().
ClearDynamicCache ==
  /\ dynamicCache # <<>>
  /\ dynamicCache' = <<>>
  /\ swOp' = NoFetchEvent
  /\ UNCHANGED <<staticCache, NotWorker>>

Get(url) == [method |-> "GET", url |-> url]

\* The requests of the pages: assets, data and pages of the site, simulation
\* pages, images and data of PhET, a POST, a request to another host.
WorkerRequests ==
  { Get(Url("own", "/css/", "css", 0)), Get(Url("own", "/images/", "png", 0)),
    Get(Url("own", "/data/", "json", 0)), Get(Url("own", "/", "html", 1)),
    Get(Url("own", "/", "html", 2)),
    Get(Url("phet.colorado.edu", "/sims/html/", "html", 0)),
    Get(Url("phet.colorado.edu", "/sims/html/", "png", 0)),
    Get(Url("phet.colorado.edu", "/services/", "json", 0)),
    Get(Url("other", "/", "js", 0)),
    [method |-> "POST", url |-> Url("own", "/", "html", 1)] }

NextWorker ==
  \/ \E request \in WorkerRequests, network \in NetworkOutcomes :
       FetchEvent(request, network)
  \/ ClearDynamicCache

SpecWorker == Init /\ [][NextWorker]_vars

\* The pages of the site are asked for one after the other (a page may be
\* asked for again while it is the latest); the simulation data in between.
PagesCached == {i \in DOMAIN dynamicCache : dynamicCache[i].ext = "html"}

LatestPage ==
  IF PagesCached = {} THEN 0
  ELSE dynamicCache[CHOOSE i \in PagesCached : \A j \in PagesCached : j <= i].n

NextCache ==
  \/ \E n \in {LatestPage, LatestPage + 1} \cap 1..MaxPages, network \in NetworkOutcomes :
       FetchEvent(Get(Url("own", "/", "html", n)), network)
  \/ \E network \in NetworkOutcomes :
       FetchEvent(Get(Url("own", "/data/", "json", 1)), network)
  \/ ClearDynamicCache

SpecCache == Init /\ [][NextCache]_vars

\* C15: a GET request whose host is phet.colorado.edu is never answered from
\* a cache and its response is never written to a cache, whatever its path.
C15_PhETNetworkOnly ==
  /\ (swOp.request.method = "GET" /\ swOp.request.url.host = "phet.colorado.edu") =>
        swOp.answer # "cache" /\ swOp.wrote = "none"
  /\ \A url \in staticCache : url.host # "phet.colorado.edu"
  /\ \A i \in DOMAIN dynamicCache : dynamicCache[i].host # "phet.colorado.edu"

\* C16: the dynamic cache never holds more than MAX_DYNAMIC_CACHE_SIZE entries.
C16_DynamicCacheBounded == Len(dynamicCache) <= MAX_DYNAMIC_CACHE_SIZE

----------------------------------------------------------------------------
(***************************************************************************)
(*                    DataManager.searchAllSimulations                     *)
(*                                                                         *)
(* The standard simulations are the first three records of Catalogue.  A   *)
(* custom simulation has an array of numbers as gradeLevel and may have a  *)
(* tags array.  Subjects and tags are searched as text.                    *)
(***************************************************************************)

StandardSimulations == SubSeq(Catalogue, 1, Len(Catalogue) - 1)

CustomCatalogue ==
  << [ id |-> "custom-1", subject |-> "physics", gradeLevels |-> {10},
       difficulty |-> "easy", hasTags |-> TRUE, tags |-> <<"atoms">>,
       title |-> <<"a", "b">>, description |-> <<"a">>,
       hasTopics |-> FALSE, topics |-> <<>>, isCustom |-> TRUE ],
     [ id |-> "custom-2", subject |-> "chemistry", gradeLevels |-> {10, 11},
       difficulty |-> "hard", hasTags |-> FALSE, tags |-> <<>>,
       title |-> <<"B">>, description |-> <<"b", "a">>,
       hasTopics |-> TRUE, topics |-> << <<"A", "b">> >>, isCustom |-> TRUE ] >>

\* The characters of a subject or tag.
Text(word) ==
  CASE word = "physics" -> <<"p", "h", "y", "s", "i", "c", "s">>
    [] word = "chemistry" -> <<"c", "h", "e", "m", "i", "s", "t", "r", "y">>
    [] word = "force" -> <<"f", "o", "r", "c", "e">>
    [] word = "motion" -> <<"m", "o", "t", "i", "o", "n">>
    [] word = "atoms" -> <<"a", "t", "o", "m", "s">>

\* parseInt of a grade level filter.
parseInt(gradeLevel) ==
  CASE gradeLevel = "10" -> 10 [] gradeLevel = "11" -> 11 [] OTHER -> 0 - 1

SomeIncludes(fields, searchTerm) ==
  \E i \in DOMAIN fields : includes(toLowerCase(fields[i]), searchTerm)

\* DataManager.searchSimulations(keyword, filters) over data.simulations.
searchSimulations(keyword, filters) ==
  LET searchTerm == trim(toLowerCase(keyword))
      r0 == IF keyword # <<>> /\ trim(keyword) # <<>>
            THEN SelectSeq(StandardSimulations, LAMBDA sim :
                   SomeIncludes(<<sim.title, sim.description>> \o sim.topics
                                  \o sim.learningObjectives, searchTerm))
            ELSE StandardSimulations
      r1 == IF Present(filters.subject)
            THEN SelectSeq(r0, LAMBDA sim : sim.subject = filters.subject) ELSE r0
      r2 == IF Present(filters.gradeLevel)
            THEN SelectSeq(r1, LAMBDA sim : sim.gradeLevel = filters.gradeLevel) ELSE r1
      r3 == IF Present(filters.difficulty)
            THEN SelectSeq(r2, LAMBDA sim : sim.difficulty = filters.difficulty) ELSE r2
  IN IF filters.hasTags /\ Len(filters.tags) > 0
     THEN SelectSeq(r3, LAMBDA sim : hasSomeTag(sim, filters.tags)) ELSE r3

\* SimulationManager.searchSimulations(query) over the custom simulations.
searchCustomSimulations(custom, query) ==
  IF query = <<>> \/ trim(query) = <<>> THEN custom
  ELSE LET searchTerm == trim(toLowerCase(query))
       IN SelectSeq(custom, LAMBDA simulation :
            \/ SomeIncludes(<<simulation.title, simulation.description,
                              Text(simulation.subject)>>, searchTerm)
            \/ simulation.hasTopics /\ SomeIncludes(simulation.topics, searchTerm)
            \/ simulation.hasTags
                 /\ \E j \in DOMAIN simulation.tags :
                      includes(toLowerCase(Text(simulation.tags[j])), searchTerm))

\* searchAllSimulations(keyword, filters); ready: window.SimulationManager is
\* there and isReady().
searchAllSimulations(keyword, filters, ready, custom) ==
  LET standardResults == searchSimulations(keyword, filters)
      customSims == searchCustomSimulations(custom, keyword)
      c1 == IF Present(filters.subject)
            THEN SelectSeq(customSims, LAMBDA sim : sim.subject = filters.subject)
            ELSE customSims
      c2 == IF Present(filters.gradeLevel)
            THEN SelectSeq(c1, LAMBDA sim : parseInt(filters.gradeLevel) \in sim.gradeLevels)
            ELSE c1
      c3 == IF Present(filters.difficulty)
            THEN SelectSeq(c2, LAMBDA sim : sim.difficulty = filters.difficulty)
            ELSE c2
  IN IF ready THEN standardResults \o c3 ELSE standardResults

\* The arguments of the callers.
SearchKeywords ==
  { <<>>, <<" ">>, <<"A", "b">>, <<" ", "b", " ">>, <<"h", "y">>, <<"a", "t", "o">> }

SearchFilters ==
  { [subject |-> s, gradeLevel |-> g, difficulty |-> d, hasTags |-> t.hasTags,
     tags |-> t.tags] :
      s \in {"absent", "physics"}, g \in {"absent", "10"}, d \in {"absent", "easy"},
      t \in { [hasTags |-> FALSE, tags |-> <<>>], [hasTags |-> TRUE, tags |-> <<>>],
              [hasTags |-> TRUE, tags |-> <<"force">>] } }

CustomLists == {<<>>, CustomCatalogue, SubSeq(CustomCatalogue, 1, 1)}

SearchAllSimulations(keyword, filters, ready, custom) ==
  /\ searchOp' = [called |-> TRUE, keyword |-> keyword, filters |-> filters,
                  results |-> searchAllSimulations(keyword, filters, ready, custom)]
  /\ UNCHANGED NotSearch

NextSearch ==
  \E keyword \in SearchKeywords, filters \in SearchFilters, ready \in BOOLEAN,
     custom \in CustomLists :
       SearchAllSimulations(keyword, filters, ready, custom)

SpecSearch == Init /\ [][NextSearch]_vars

\* Some text of the simulation - title, description, topics, learning
\* objectives, subject, tags - contains the keyword, letter case ignored.
KeywordFound(sim, keyword) ==
  LET term == trim(keyword)
      texts == <<sim.title, sim.description, Text(sim.subject)>> \o sim.topics
                 \o (IF "isCustom" \in DOMAIN sim THEN <<>> ELSE sim.learningObjectives)
                 \o [j \in DOMAIN sim.tags |-> Text(sim.tags[j])]
  IN term = <<>> \/ \E i \in DOMAIN texts : ContainsIgnoringCase(texts[i], term)

\* The simulation satisfies every filter of the filters object.
FiltersSatisfied(sim, filters) ==
  /\ Present(filters.subject) => sim.subject = filters.subject
  /\ Present(filters.gradeLevel) =>
       IF "isCustom" \in DOMAIN sim
       THEN parseInt(filters.gradeLevel) \in sim.gradeLevels
       ELSE sim.gradeLevel = filters.gradeLevel
  /\ Present(filters.difficulty) => sim.difficulty = filters.difficulty
  /\ (filters.hasTags /\ filters.tags # <<>>) =>
       \E t \in DOMAIN filters.tags : \E j \in DOMAIN sim.tags :
         sim.tags[j] = filters.tags[t]

\* C17: every simulation searchAllSimulations(keyword, filters) returns,
\* standard or custom, matches the keyword and satisfies every filter
\* supplied: subject, gradeLevel, difficulty and tags.
C17_SearchResultsMatch ==
  searchOp.called =>
    \A i \in DOMAIN searchOp.results :
      /\ KeywordFound(searchOp.results[i], searchOp.keyword)
      /\ FiltersSatisfied(searchOp.results[i], searchOp.filters)

(***************************************************************************)
(*                          DataManager.loadJSON                           *)
(***************************************************************************)

\* loadJSON(url, cacheKey) up to its await: the cached data is returned; else
\* the promise the loadingPromises map holds for the key; else fetchWithRetry
\* is called and its promise is put in the map.
LoadJSON(cacheKey) ==
  /\ IF jsonCache[cacheKey] # 0
     THEN /\ jsonOp' = [op |-> "loadJSON", key |-> cacheKey, result |-> "cached",
                        promise |-> 0]
          /\ UNCHANGED <<loadingPromises, jsonFetches, jsonStarted>>
     ELSE IF loadingPromises[cacheKey] # 0
     THEN /\ jsonOp' = [op |-> "loadJSON", key |-> cacheKey, result |-> "pending",
                        promise |-> loadingPromises[cacheKey]]
          /\ UNCHANGED <<loadingPromises, jsonFetches, jsonStarted>>
     ELSE /\ jsonStarted < MaxJsonFetches
          /\ jsonStarted' = jsonStarted + 1
          /\ jsonFetches' = jsonFetches \cup
                              {[promise |-> jsonStarted + 1, key |-> cacheKey]}
          /\ loadingPromises' = [loadingPromises EXCEPT ![cacheKey] = jsonStarted + 1]
          /\ jsonOp' = [op |-> "loadJSON", key |-> cacheKey, result |-> "started",
                        promise |-> jsonStarted + 1]
  /\ UNCHANGED <<jsonCache, NotJson>>

\* A fetchWithRetry call returns its data: the loadJSON that started it goes
\* on after its await, caches the data and deletes the key's promise.
FetchFulfilled(f) ==
  /\ f \in jsonFetches
  /\ jsonFetches' = jsonFetches \ {f}
  /\ jsonCache' = [jsonCache EXCEPT ![f.key] = f.promise]
  /\ loadingPromises' = [loadingPromises EXCEPT ![f.key] = 0]
  /\ jsonOp' = [op |-> "fulfilled", key |-> f.key, result |-> "data",
                promise |-> f.promise]
  /\ UNCHANGED <<jsonStarted, NotJson>>

\* A fetchWithRetry call throws after its last attempt: the loadJSON that
\* started it deletes the key's promise and throws.
FetchRejected(f) ==
  /\ f \in jsonFetches
  /\ jsonFetches' = jsonFetches \ {f}
  /\ loadingPromises' = [loadingPromises EXCEPT ![f.key] = 0]
  /\ jsonOp' = [op |-> "rejected", key |-> f.key, result |-> "error",
                promise |-> f.promise]
  /\ UNCHANGED <<jsonCache, jsonStarted, NotJson>>

\* clearCache(): both maps are emptied; the fetches in progress go on.
ClearCache ==
  /\ jsonCache' = [k \in CacheKeys |-> 0]
  /\ loadingPromises' = [k \in CacheKeys |-> 0]
  /\ jsonOp' = [op |-> "clearCache", key |-> "none", result |-> "none",
                promise |-> 0]
  /\ UNCHANGED <<jsonFetches, jsonStarted, NotJson>>

JsonPromises == 1..MaxJsonFetches

NextJson ==
  \/ \E cacheKey \in CacheKeys : LoadJSON(cacheKey)
  \/ \E p \in JsonPromises, k \in CacheKeys :
          FetchFulfilled([promise |-> p, key |-> k])
  \/ \E p \in JsonPromises, k \in CacheKeys :
          FetchRejected([promise |-> p, key |-> k])
  \/ ClearCache

SpecJson == Init /\ [][NextJson]_vars

\* The fetchWithRetry calls in progress for a cache key.
FetchesOf(cacheKey) == {f \in jsonFetches : f.key = cacheKey}

\* C19: at most one fetchWithRetry per cache key is in progress at any time,
\* for every interleaving of loadJSON calls, clearCache calls and fetch
\* completions; a loadJSON call made while a load of the key is in flight
\* starts no fetch.
C19_OneFetchPerKey ==
  \A cacheKey \in CacheKeys : Cardinality(FetchesOf(cacheKey)) <= 1

(***************************************************************************)
(*                 SimulationBrowser and CardRenderer                      *)
(*                                                                         *)
(* An event handler and the promise continuations it queues run without    *)
(* another event between them; an await of nextFrame() lets events in.     *)
(* A step is therefore a handler up to its first wait for a frame, or a    *)
(* frame with the continuations of every renderCards call waiting for it.  *)
(***************************************************************************)

\* The simulations the content filter has loaded: nine of physics, one of
\* chemistry, so that a list of more than batchSize cards exists.
LibrarySimulation(id, subject, difficulty, title) ==
  [ id |-> id, subject |-> subject, gradeLevel |-> "10",
    difficulty |-> difficulty, hasTags |-> TRUE, tags |-> <<>>,
    title |-> title, description |-> <<>>,
    hasTopics |-> TRUE, topics |-> <<>>, learningObjectives |-> <<>>,
    hasInstructions |-> FALSE, instructions |-> <<>>,
    hasVocabulary |-> FALSE, vocabulary |-> <<>> ]

Library ==
  << LibrarySimulation("p1", "physics", "easy", <<"a">>),
     LibrarySimulation("p2", "physics", "easy", <<"a">>),
     LibrarySimulation("p3", "physics", "easy", <<"a">>),
     LibrarySimulation("p4", "physics", "easy", <<"a">>),
     LibrarySimulation("p5", "physics", "easy", <<"a">>),
     LibrarySimulation("p6", "physics", "easy", <<"a">>),
     LibrarySimulation("p7", "physics", "easy", <<"a">>),
     LibrarySimulation("p8", "physics", "easy", <<"a">>),
     LibrarySimulation("p9", "physics", "hard", <<"b">>),
     LibrarySimulation("c1", "chemistry", "hard", <<"b">>) >>

\* The elements the grid holds besides cards.
LoadingElement == "library-loading"
EmptyState == "empty-state"

\* A card is known by its data-simulation-id.
createCard(simulation) == simulation.id

\* contentFilter.setFilters({subject, gradeLevel, difficulty, keyword:
\* search}) followed by getResults(), for the browser's filters given.
ResultsFor(filters) ==
  applyFilters(Library,
               [ subject |-> filters.subject, gradeLevel |-> filters.gradeLevel,
                 difficulty |-> filters.difficulty, tags |-> <<>>,
                 keyword |-> trim(filters.search) ]).results

\* loadInitialData hands this.currentFilters itself to setFilters: it has no
\* keyword property, so the content filter's keyword stays ''.
InitialResultsFor(filters) == ResultsFor([filters EXCEPT !.search = <<>>])

\* createBatches(array, size).
BatchCount(array) == (Len(array) + batchSize - 1) \div batchSize

Batch(array, i) ==
  SubSeq(array, (i - 1) * batchSize + 1,
         IF i * batchSize < Len(array) THEN i * batchSize ELSE Len(array))

Cards(batch) == [j \in DOMAIN batch |-> createCard(batch[j])]

BrowserState ==
  [ filters |-> browserFilters, grid |-> simulationsGrid, count |-> resultsCount,
    renders |-> renders, timer |-> searchTimeout, initialized |-> isInitialized,
    stale |-> staleFilters ]

SetBrowser(B) ==
  /\ browserFilters' = B.filters
  /\ simulationsGrid' = B.grid
  /\ resultsCount' = B.count
  /\ renders' = B.renders
  /\ searchTimeout' = B.timer
  /\ isInitialized' = B.initialized
  /\ staleFilters' = B.stale
  /\ UNCHANGED NotBrowser

\* setSearch(query): the filter is set and the debounce timer armed anew.
setSearch(B, query) ==
  [B EXCEPT !.filters.search = trim(query), !.timer = TRUE, !.stale = TRUE]

\* What follows "await this.cardRenderer.renderCards(...)" in its caller,
\* and then what follows the caller's own await.
\*   updateResults     : updateResultsCount; showEmptyState for no results.
\*   loadInitialData   : updateResultsCount; initialize marks isInitialized.
\*   clearFilters      : after updateResults, clearSearchInput -> setSearch('').
AfterRender(B, r) ==
  LET B1 == [B EXCEPT !.count = Len(r.results)]
      B2 == IF r.caller = "loadInitialData"
            THEN [B1 EXCEPT !.initialized = "yes"]
            ELSE IF Len(r.results) = 0
                 THEN [B1 EXCEPT !.grid = <<EmptyState>>]
                 ELSE B1
  IN IF r.caller = "clearFilters" THEN setSearch(B2, <<>>) ELSE B2

\* renderCardsInBatches from batch r.next on, up to the next await of
\* nextFrame() or to the end of renderCards and of its caller.
RenderFrom(B, r) ==
  IF r.next > BatchCount(r.results)
  THEN AfterRender(B, r)
  ELSE LET B1 == [B EXCEPT !.grid = @ \o Cards(Batch(r.results, r.next))]
       IN IF r.next < BatchCount(r.results)
          THEN [B1 EXCEPT !.renders = Append(@, [r EXCEPT !.next = @ + 1])]
          ELSE AfterRender(B1, r)

\* renderCards(container, simulations): the container is emptied, the
\* loading state shown for many cards, and the batches are rendered.
renderCards(B, results, caller) ==
  LET B1 == [B EXCEPT !.grid = IF Len(results) > ManyCards
                               THEN <<LoadingElement>> ELSE <<>>]
  IN RenderFrom(B1, [results |-> results, next |-> 1, caller |-> caller])

\* updateResults(), called by caller: nothing before initialisation; else
\* showLoading, setFilters, getResults, renderCards.
updateResults(B, caller) ==
  IF B.initialized # "yes"
  THEN IF caller = "clearFilters" THEN setSearch(B, <<>>) ELSE B
  ELSE renderCards([B EXCEPT !.grid = <<LoadingElement>>, !.stale = FALSE],
                   ResultsFor(B.filters), caller)

\* A handler may start a render only while the model can hold it.
CanRender == Len(renders) < MaxRenders

\* initialize(container): loadInitialData sets the subject to physics and
\* renders the results.
Initialize ==
  /\ isInitialized = "no"
  /\ LET B1 == [BrowserState EXCEPT !.filters.subject = "physics",
                                    !.initialized = "loading",
                                    !.grid = <<LoadingElement>>]
     IN SetBrowser(renderCards(B1, InitialResultsFor(B1.filters), "loadInitialData"))

\* A click on a subject button: setSubject(subject).
SetSubject(subject) ==
  /\ isInitialized # "no"
  /\ CanRender
  /\ SetBrowser(updateResults([BrowserState EXCEPT !.filters.subject = subject,
                                                   !.stale = TRUE],
                              "setSubject"))

\* A click on a difficulty button: setDifficulty(difficulty).
SetDifficulty(difficulty) ==
  /\ isInitialized # "no"
  /\ CanRender
  /\ SetBrowser(updateResults([BrowserState EXCEPT !.filters.difficulty = difficulty,
                                                   !.stale = TRUE],
                              "setDifficulty"))

\* Input in the search field: setSearch(query).
SetSearch(query) ==
  /\ isInitialized # "no"
  /\ SetBrowser(setSearch(BrowserState, query))

\* The debounce timer fires: updateResults().
SearchTimer ==
  /\ searchTimeout
  /\ CanRender
  /\ SetBrowser(updateResults([BrowserState EXCEPT !.timer = FALSE], "setSearch"))

\* A click on the clear button: clearFilters().
BrowserClearFilters ==
  /\ isInitialized # "no"
  /\ CanRender
  /\ SetBrowser(updateResults(
       [BrowserState EXCEPT !.filters = [subject |-> "null", gradeLevel |-> "null",
                                         difficulty |-> "null", search |-> <<>>],
                            !.stale = TRUE],
       "clearFilters"))

\* The renderCards calls in list rs go on, the oldest first.
RECURSIVE Continue(_, _)
Continue(B, rs) ==
  IF rs = <<>> THEN B ELSE Continue(RenderFrom(B, Head(rs)), Tail(rs))

\* An animation frame: every nextFrame() promise awaited resolves, in the
\* order the requests were made.
Frame ==
  /\ renders # <<>>
  /\ SetBrowser(Continue([BrowserState EXCEPT !.renders = <<>>], renders))

BrowserSubjects == {"null", "physics", "chemistry", "biology"}
BrowserDifficulties == {"null", "hard"}
BrowserQueries == {<<>>, <<"b">>}

NextBrowser ==
  \/ Initialize
  \/ \E subject \in BrowserSubjects : SetSubject(subject)
  \/ \E difficulty \in BrowserDifficulties : SetDifficulty(difficulty)
  \/ \E query \in BrowserQueries : SetSearch(query)
  \/ SearchTimer
  \/ BrowserClearFilters
  \/ Frame

SpecBrowser == Init /\ [][NextBrowser]_vars

\* Every update has finished: no renderCards call waits for a frame and the
\* latest filters have been read by an updateResults call.
UpdatesFinished ==
  isInitialized = "yes" /\ renders = <<>> /\ ~staleFilters

\* The cards the grid shows.
GridCards == SelectSeq(simulationsGrid, LAMBDA e : e \notin {LoadingElement, EmptyState})

\* C21: when filter changes arrive while an earlier updateResults is still
\* rendering, then once all pending updates have finished the grid shows
\* exactly the cards of the results for the current filters, each card once,
\* and the displayed results count matches them.
C21_GridShowsCurrentResults ==
  UpdatesFinished =>
    /\ GridCards = Cards(ResultsFor(browserFilters))
    /\ resultsCount = Len(ResultsFor(browserFilters))

(***************************************************************************)
(*              ErrorHandler and PhETIntegration.reloadSimulation          *)
(***************************************************************************)

\* this.errorMessages[type].actions
ErrorActions(type) ==
  CASE type = "network"      -> {"retry", "refresh"}
    [] type = "phet_loading" -> {"retry", "alternative"}
    [] OTHER                 -> {"retry", "refresh"}

ErrorState ==
  [ elements |-> errorElements, retry |-> retryAttempts, reported |-> errorsReported ]

\* handleError(error, type, context, options): a new error id; displayError
\* appends an element whose buttons createErrorActions makes of the type's
\* actions.  The result carries the id returned.
handleError(E, type) ==
  LET id == E.reported + 1 IN
  [E EXCEPT !.reported = id,
            !.elements = @ \cup {[id |-> id, type |-> type,
                                  actions |-> ErrorActions(type)]}]

\* setupRetry(errorId, retryCallback): stored when the callback is a function.
setupRetry(E, errorId, retryCallback) ==
  IF retryCallback # "none"
  THEN [E EXCEPT !.retry[errorId] =
          [present |-> TRUE, callback |-> retryCallback, attempts |-> 0]]
  ELSE E

\* handleNetworkError(error, url, options): handleError, then setupRetry
\* unless options.enableRetry is false.
handleNetworkError(E, options) ==
  LET E1 == handleError(E, "network") IN
  IF options.enableRetry
  THEN setupRetry(E1, E1.reported, options.retryCallback)
  ELSE E1

\* handlePhETError(error, simulationId, options): handleError, then
\* setupAlternatives, which logs.  The options' retryCallback is not read.
handlePhETError(E, options) == handleError(E, "phet_loading")

\* clearError(errorId): the element is removed.
clearError(E, errorId) ==
  [E EXCEPT !.elements = {e \in @ : e.id # errorId}]

SetError(E) ==
  /\ errorElements' = E.elements
  /\ retryAttempts' = E.retry
  /\ errorsReported' = E.reported

\* A click on the reload button of a loaded simulation: reloadSimulation up
\* to its await.
ReloadStarts ==
  /\ reloadsPending < MaxReloads
  /\ reloadsPending' = reloadsPending + 1
  /\ errorOp' = NoErrorOp
  /\ UNCHANGED <<errorElements, retryAttempts, errorsReported, fetchesPending, NotError>>

\* The iframe of a reloadSimulation call loads.
ReloadLoads ==
  /\ reloadsPending > 0
  /\ reloadsPending' = reloadsPending - 1
  /\ errorOp' = NoErrorOp
  /\ UNCHANGED <<errorElements, retryAttempts, errorsReported, fetchesPending, NotError>>

\* reloadSimulation's catch block: the load failed or timed out; the error is
\* handed to handlePhETError with { enableRetry: true, retryCallback: () =>
\* this.reloadSimulation(simulation.id), showAlternatives: true }.
ReloadFails ==
  /\ reloadsPending > 0
  /\ errorsReported < MaxErrors
  /\ reloadsPending' = reloadsPending - 1
  /\ SetError(handlePhETError(ErrorState,
                [enableRetry |-> TRUE, retryCallback |-> "reloadSimulation"]))
  /\ errorOp' = [op |-> "handlePhETError", id |-> errorsReported + 1,
                 type |-> "phet_loading", button |-> FALSE, executed |-> "none"]
  /\ UNCHANGED <<fetchesPending, NotError>>

\* fetchWithRetry gives up: handleNetworkError with { enableRetry: true,
\* retryCallback: () => this.fetchWithRetry(url, cacheKey) }.
FetchFails ==
  /\ errorsReported < MaxErrors
  /\ SetError(handleNetworkError(ErrorState,
                [enableRetry |-> TRUE, retryCallback |-> "fetchWithRetry"]))
  /\ fetchesPending' = IF fetchesPending > 0 THEN fetchesPending - 1 ELSE 0
  /\ errorOp' = [op |-> "handleNetworkError", id |-> errorsReported + 1,
                 type |-> "network", button |-> FALSE, executed |-> "none"]
  /\ UNCHANGED <<reloadsPending, NotError>>

\* A click on the retry button of the error element e: retryAction(e.id).
\* Both callbacks are async functions: they return a promise and throw
\* nothing into retryAction's try block.
RetryAction(e) ==
  LET retryInfo == retryAttempts[e.id]
      runs == retryInfo.present /\ retryInfo.attempts < maxRetryAttempts
      E1 == IF runs
            THEN clearError([ErrorState EXCEPT !.retry[e.id].attempts = @ + 1], e.id)
            ELSE ErrorState
  IN /\ e \in errorElements
     /\ "retry" \in e.actions
     /\ runs /\ retryInfo.callback = "reloadSimulation" => reloadsPending < MaxReloads
     /\ SetError(E1)
     /\ reloadsPending' = IF runs /\ retryInfo.callback = "reloadSimulation"
                          THEN reloadsPending + 1 ELSE reloadsPending
     /\ fetchesPending' = IF runs /\ retryInfo.callback = "fetchWithRetry"
                          THEN 1 ELSE fetchesPending
     /\ errorOp' = [op |-> "retryAction", id |-> e.id, type |-> e.type,
                    button |-> TRUE,
                    executed |-> IF runs THEN retryInfo.callback ELSE "none"]
     /\ UNCHANGED NotError

\* The close button, or the dismiss timer of displayError: clearError(id).
CloseError(e) ==
  /\ e \in errorElements
  /\ SetError(clearError(ErrorState, e.id))
  /\ errorOp' = NoErrorOp
  /\ UNCHANGED <<reloadsPending, fetchesPending, NotError>>

ErrorElements ==
  {[id |-> id, type |-> type, actions |-> ErrorActions(type)] :
     id \in ErrorIds, type \in {"network", "phet_loading"}}

NextError ==
  \/ ReloadStarts
  \/ ReloadLoads
  \/ ReloadFails
  \/ FetchFails
  \/ \E e \in ErrorElements : RetryAction(e)
  \/ \E e \in ErrorElements : CloseError(e)

SpecError == Init /\ [][NextError]_vars

\* C22: a failed reloadSimulation is reported to the error handler, which
\* shows the error with a retry button, and activating the retry button of
\* that error executes the retry callback: the simulation is reloaded again.
C22_RetryReloads ==
  /\ errorOp.op = "handlePhETError" =>
       \E e \in errorElements : e.id = errorOp.id /\ "retry" \in e.actions
  /\ (errorOp.op = "retryAction" /\ errorOp.type = "phet_loading") =>
       errorOp.executed = "reloadSimulation"

=============================================================================
